---- MODULE Spec2Model ----
(***************************************************************************)
(* Model of walking-lanczos: the sharded sparse quantum state, its         *)
(* producer/consumer builder, the Heisenberg operator, truncation,         *)
(* normalisation, the energy estimator and the diffusion loop.             *)
(*                                                                         *)
(* Amplitudes are exact: a complex number is a pair <<re, im>> of          *)
(* integers, and a state carries the square `den` of the real scale that   *)
(* normalize() divided by, so the amplitude of key k is                    *)
(* maps[..][k] / sqrt(den).  den = 0 stands for the state normalize()      *)
(* leaves when the norm is 0 (scale = inf, every amplitude NaN).           *)
(***************************************************************************)
EXTENDS Integers, Sequences, FiniteSets, TLC

VARIABLES
    pc,          \* position of the driver thread (main / diffusion_loop / builder client)
    psi,         \* the QuantumState the driver currently owns
    prev,        \* history: the input of the last trotter_step
    built,       \* history: the state trotter_step returned (before shrink)
    lambda,      \* the real shift of the diffusion operator
    ham,         \* Heisenberg::_specs
    iterations,  \* the iteration count given to diffusion_loop
    iter,        \* loop counter i of diffusion_loop
    oplog,       \* history: the operations diffusion_loop performed, in order
    energy_val,  \* the results of the energy() calls of main
    queue,       \* Updater::_queue, one per shard
    done,        \* Updater::_done, one per shard
    cpc,         \* position of each consumer thread
    total,       \* history: per key, the sum of the deltas added so far
    nadds,       \* history: per key, the number of add calls so far
    fin,         \* input of the pure function under test
    fout         \* output of the pure function under test

vars == <<pc, psi, prev, built, lambda, ham, iterations, iter, oplog,
          energy_val, queue, done, cpc, total, nadds, fin, fout>>

driverVars == <<pc, psi, prev, built, lambda, ham, iterations, iter, oplog, energy_val>>
buildVars == <<queue, done, cpc, total, nadds>>
funVars == <<fin, fout>>

-----------------------------------------------------------------------------
(* Bounds of the model *)

MaxEntries == 2
MaxIter == 2
MaxAdds == 3
MaxLines == 3
MaxWorkerArg == 8
QueueCapacity == 2

(* Program constants *)

SpinBytes == 14

-----------------------------------------------------------------------------
(* Generic helpers *)

Range(s) == { s[i] : i \in 1..Len(s) }

Max2(a, b) == IF a >= b THEN a ELSE b

RECURSIVE Pow2(_)
Pow2(n) == IF n = 0 THEN 1 ELSE 2 * Pow2(n - 1)

RECURSIVE SumSeq(_)
SumSeq(s) == IF s = <<>> THEN 0 ELSE Head(s) + SumSeq(Tail(s))

RECURSIVE Concat(_)
Concat(ss) == IF ss = <<>> THEN <<>> ELSE Head(ss) \o Concat(Tail(ss))

\* An unspecified but fixed enumeration of a finite set (hash-table iteration order).
RECURSIVE SetToSeq(_)
SetToSeq(S) ==
    IF S = {} THEN <<>>
    ELSE LET x == CHOOSE y \in S : TRUE
         IN <<x>> \o SetToSeq(S \ {x})

-----------------------------------------------------------------------------
(* std::complex<double>, exact *)

CZero == <<0, 0>>
CAdd(a, b) == <<a[1] + b[1], a[2] + b[2]>>
CNeg(a) == <<-a[1], -a[2]>>
\* A plausible slip: the imaginary part taken with a wrong cross term.
CMulSlip(a, b) == <<a[1] * b[1] - a[2] * b[2], a[1] * b[1] + a[2] * b[1]>>

CMul(a, b) == <<a[1] * b[1] - a[2] * b[2], a[1] * b[2] + a[2] * b[1]>>
CScale(r, a) == <<r * a[1], r * a[2]>>
\* A plausible slip: the conjugation left out.
CConjMissing(a) == a

CConj(a) == <<a[1], -a[2]>>
CNorm(a) == a[1] * a[1] + a[2] * a[2]

RECURSIVE CSumSeq(_)
CSumSeq(s) == IF s = <<>> THEN CZero ELSE CAdd(Head(s), CSumSeq(Tail(s)))

-----------------------------------------------------------------------------
(* SpinVector: [size, spin], spin the 14 payload bytes *)

GetBit(x, i) == (x \div Pow2(7 - i)) % 2

\* A plausible slip: the bit counted from the least significant end.
FlipBitFromLsb(x, i) ==
    IF (x \div Pow2(i)) % 2 = 1 THEN x - Pow2(i) ELSE x + Pow2(i)

FlipBit(x, i) == IF GetBit(x, i) = 1 THEN x - Pow2(7 - i) ELSE x + Pow2(7 - i)

\* A plausible slip: the bit written counted from the least significant end.
SetBitFromLsb(x, i, s) ==
    (x - ((x \div Pow2(i)) % 2) * Pow2(i)) + (s % 2) * Pow2(i)

SetBit(x, i, s) == (x - GetBit(x, i) * Pow2(7 - i)) + (s % 2) * Pow2(7 - i)

SpinGet(v, i) == GetBit(v.spin[(i \div 8) + 1], i % 8)

SpinSet(v, i, s) ==
    [v EXCEPT !.spin[(i \div 8) + 1] = SetBit(@, i % 8, s)]

SpinFlip(v, i) ==
    [v EXCEPT !.spin[(i \div 8) + 1] = FlipBit(@, i % 8)]

\* A plausible slip: only the first of the indices is flipped.
SpinFlippedFirstOnly(v, is) == IF is = <<>> THEN v ELSE SpinFlip(v, Head(is))

RECURSIVE SpinFlipped(_, _)
SpinFlipped(v, is) ==
    IF is = <<>> THEN v ELSE SpinFlipped(SpinFlip(v, Head(is)), Tail(is))

\* The loop of the constructor, for the indices lo .. hi - 1 in order.
RECURSIVE FillSpins(_, _, _, _)
FillSpins(v, bits, lo, hi) ==
    IF hi <= lo THEN v
    ELSE IF hi = lo + 1 THEN SpinSet(v, lo, bits[lo + 1])
    ELSE LET mid == (lo + hi) \div 2
         IN CHOOSE r \in { FillSpins(w, bits, mid, hi) : w \in { FillSpins(v, bits, lo, mid) } } : TRUE

MakeSpinVector(bits) ==
    FillSpins([size |-> Len(bits), spin |-> [b \in 1..SpinBytes |-> 0]], bits, 0, Len(bits))

SpinData0(v) == v.spin[1]

\* The 16 bytes of _data as the two 64-bit lanes of as_ints: spin[0..7], then
\* spin[8..13] followed by the two bytes of size.
AsInts(v) ==
    << SubSeq(v.spin, 1, 8),
       SubSeq(v.spin, 9, SpinBytes) \o <<v.size % 256, v.size \div 256>> >>

\* A plausible slip: only the low lane compared.
SpinEqLowLane(a, b) == AsInts(a)[1] = AsInts(b)[1]

\* operator==: every byte of the lane-wise comparison is set.
SpinEq(a, b) == \A lane \in 1..2 : AsInts(a)[lane] = AsInts(b)[lane]

\* hash(): hash_combine applied to the seed as_ints[0] and the value as_ints[1];
\* the combination itself is boost's and is kept symbolic.
SpinHash(v) == [seed |-> AsInts(v)[1], value |-> AsInts(v)[2]]

-----------------------------------------------------------------------------
(* Shard index *)

RECURSIVE PopCount(_)
PopCount(n) == IF n = 0 THEN 0 ELSE (n % 2) + PopCount(n \div 2)

IsPowerOfTwo(n) == n > 0 /\ \E e \in 0..8 : n = Pow2(e)

\* A plausible slip: the low bits of byte 0 instead of the high bits.
SpinToIndexLowBits(spin, number_workers) == SpinData0(spin) % number_workers

SpinToIndex(spin, number_workers) ==
    SpinData0(spin) \div Pow2(8 - PopCount(number_workers - 1))

\* The one-argument spin_to_index that QuantumState::insert, remove_least and
\* random_resample call; the number of shards is that of the state.
SpinToIndex1(spin, number_workers) ==
    SpinData0(spin) \div Pow2(8 - PopCount(number_workers - 1))

-----------------------------------------------------------------------------
(* QuantumState *)

EmptyMap == [k \in {} |-> CZero]

\* A plausible slip: insert taken for find-or-add, as unsafe_process does.
MapInsertAdd(t, k, a) ==
    IF k \in DOMAIN t THEN [t EXCEPT ![k] = CAdd(@, a)]
    ELSE [x \in DOMAIN t \cup {k} |-> IF x = k THEN a ELSE t[x]]

\* map_type::insert: a key already stored keeps its value.
MapInsert(t, k, a) == IF k \in DOMAIN t THEN t ELSE [x \in DOMAIN t \cup {k} |-> IF x = k THEN a ELSE t[x]]

MapErase(t, k) == [x \in DOMAIN t \ {k} |-> t[x]]

\* ska::bytell_hash_map rounds a requested bucket count up to a power of two.
RECURSIVE NextPow2From(_, _)
NextPow2From(p, n) == IF p >= n THEN p ELSE NextPow2From(2 * p, n)

BucketCount(requested, size) ==
    IF requested = 0 /\ size = 0 THEN 0 ELSE NextPow2From(2, Max2(requested, size))

NewQuantumState(soft_max, hard_max, number_workers, use_random_sampling) ==
    [maps |-> [i \in 1..number_workers |-> EmptyMap],
     soft_max |-> soft_max,
     hard_max |-> hard_max,
     random |-> use_random_sampling,
     den |-> 1]

NumberWorkers(s) == Len(s.maps)

StateSize(s) == SumSeq([i \in 1..Len(s.maps) |-> Cardinality(DOMAIN s.maps[i])])

StateKeys(s) == UNION { DOMAIN s.maps[i] : i \in 1..Len(s.maps) }

EstimateHardMax(s) ==
    LET counts == { BucketCount(s.hard_max, Cardinality(DOMAIN s.maps[i])) : i \in 1..Len(s.maps) }
    IN CHOOSE c \in counts : \A d \in counts : d <= c

StateInsert(s, k, a) ==
    LET idx == SpinToIndex1(k, NumberWorkers(s)) + 1
    IN [s EXCEPT !.maps[idx] = MapInsert(@, k, a)]

StateFind(s, k) ==
    LET table == s.maps[SpinToIndex(k, NumberWorkers(s)) + 1]
    IN IF k \in DOMAIN table THEN <<table[k]>> ELSE <<>>

\* The amplitude stored for k, 0 when k is stored nowhere.
Amp(s, k) ==
    IF \E i \in 1..Len(s.maps) : k \in DOMAIN s.maps[i]
    THEN LET i == CHOOSE j \in 1..Len(s.maps) : k \in DOMAIN s.maps[j]
         IN s.maps[i][k]
    ELSE CZero

\* QuantumState::for_each: round-robin over the non-empty tables, a table that
\* is exhausted is swapped with the last one and popped.
RECURSIVE ForEachRound(_, _, _)
ForEachRound(xs, i, acc) ==
    IF xs = <<>> THEN acc
    ELSE IF i > Len(xs) THEN ForEachRound(xs, 1, acc)
    ELSE LET x == xs[i]
             visited == Append(acc, Head(x))
             rest == Tail(x)
         IN IF rest = <<>>
            THEN LET swapped == [xs EXCEPT ![i] = xs[Len(xs)]]
                 IN ForEachRound(SubSeq(swapped, 1, Len(xs) - 1), i + 1, visited)
            ELSE ForEachRound([xs EXCEPT ![i] = rest], i + 1, visited)

TableEntries(t) == LET ks == SetToSeq(DOMAIN t) IN [n \in 1..Len(ks) |-> <<ks[n], t[ks[n]]>>]

ForEach(s) ==
    LET nonEmpty == SelectSeq([i \in 1..Len(s.maps) |-> TableEntries(s.maps[i])],
                              LAMBDA e : e /= <<>>)
    IN ForEachRound(nonEmpty, 1, <<>>)

-----------------------------------------------------------------------------
(* Heisenberg operator: the updates H(spin, coeff, builder) pushes, in order *)

\* A plausible slip: the sign of the diagonal term reversed.
SignSlip(aligned) == 1 - 2 * (IF aligned THEN 1 ELSE 0)

\* static_cast<double>(-1 + 2 * aligned)
Sign(aligned) == -1 + 2 * (IF aligned THEN 1 ELSE 0)

EdgeUpdates(coupling, edge, spin, coeff) ==
    LET i == edge[1]
        j == edge[2]
        aligned == SpinGet(spin, i) = SpinGet(spin, j)
        sign == Sign(aligned)
        first == <<CMul(CScale(sign, coeff), coupling), spin>>
    IN IF ~aligned
       THEN <<first, <<CMul(CScale(2, coeff), coupling), SpinFlipped(spin, <<i, j>>)>>>>
       ELSE <<first>>

TermUpdates(term, spin, coeff) ==
    Concat([e \in 1..Len(term.edges) |-> EdgeUpdates(term.coupling, term.edges[e], spin, coeff)])

Heisenberg(specs, spin, coeff) ==
    Concat([t \in 1..Len(specs) |-> TermUpdates(specs[t], spin, coeff)])

-----------------------------------------------------------------------------
(* Updater / QuantumStateBuilder *)

\* A plausible slip: an update for a key the table does not hold is dropped.
UnsafeProcessFoundOnly(table, key, delta) ==
    IF key \notin DOMAIN table THEN table ELSE [table EXCEPT ![key] = CAdd(@, delta)]

\* A plausible slip: an entry whose amplitude sums to zero is erased.
UnsafeProcessDropZero(table, key, delta) ==
    IF key \notin DOMAIN table
    THEN [x \in DOMAIN table \cup {key} |-> IF x = key THEN delta ELSE table[x]]
    ELSE IF CAdd(table[key], delta) = CZero
    THEN [x \in DOMAIN table \ {key} |-> table[x]]
    ELSE [table EXCEPT ![key] = CAdd(@, delta)]

UnsafeProcess(table, key, delta) ==
    IF key \notin DOMAIN table
    THEN [x \in DOMAIN table \cup {key} |-> IF x = key THEN delta ELSE table[x]]
    ELSE [table EXCEPT ![key] = CAdd(@, delta)]

\* QuantumStateBuilder::operator+= : the updater an update <<amplitude, key>> goes to.
Route(update, number_workers) == SpinToIndex(update[2], number_workers) + 1

\* The state a build leaves once stop() has returned: every shard has processed
\* the updates routed to it in the order they were pushed.
RECURSIVE BuilderRun(_, _)
BuilderRun(phi, updates) ==
    IF updates = <<>> THEN phi
    ELSE LET u == Head(updates)
             idx == Route(u, NumberWorkers(phi))
         IN BuilderRun([phi EXCEPT !.maps[idx] = UnsafeProcess(@, u[2], u[1])], Tail(updates))

-----------------------------------------------------------------------------
(* trotter_step *)

\* A plausible slip: H applied with +coeff instead of -coeff.
TrotterUpdatesPlus(lam, specs, s) ==
    LET xs == ForEach(s)
    IN Concat([n \in 1..Len(xs) |->
                  Heisenberg(specs, xs[n][1], xs[n][2])
                  \o << <<CScale(lam, xs[n][2]), xs[n][1]>> >>])

\* A plausible slip: the lambda * psi update left out.
TrotterUpdatesNoLambda(lam, specs, s) ==
    LET xs == ForEach(s)
    IN Concat([n \in 1..Len(xs) |-> Heisenberg(specs, xs[n][1], CNeg(xs[n][2]))])

TrotterUpdates(lam, specs, s) ==
    LET xs == ForEach(s)
    IN Concat([n \in 1..Len(xs) |->
                  Heisenberg(specs, xs[n][1], CNeg(xs[n][2]))
                  \o << <<CScale(lam, xs[n][2]), xs[n][1]>> >>])

\* A plausible slip: h_psi constructed with psi.hard_max().
TrotterStepOpSameHardMax(lam, specs, s) ==
    LET h_psi == [NewQuantumState(s.soft_max, s.hard_max, NumberWorkers(s), s.random)
                     EXCEPT !.den = s.den]
    IN BuilderRun(h_psi, TrotterUpdates(lam, specs, s))

TrotterStepOp(lam, specs, s) ==
    LET h_psi == [NewQuantumState(s.soft_max, EstimateHardMax(s), NumberWorkers(s), s.random)
                     EXCEPT !.den = s.den]
    IN BuilderRun(h_psi, TrotterUpdates(lam, specs, s))

-----------------------------------------------------------------------------
(* energy *)

EnergyUpdates(specs, s) ==
    LET xs == ForEach(s)
    IN Concat([n \in 1..Len(xs) |-> Heisenberg(specs, xs[n][1], xs[n][2])])

\* The second for_each of energy(): energy += conj(coeff) * h_psi[spin] for the
\* spins found in h_psi.
RECURSIVE EnergySum(_, _, _)
EnergySum(h_psi, xs, acc) ==
    IF xs = <<>> THEN acc
    ELSE LET where == StateFind(h_psi, Head(xs)[1])
         IN EnergySum(h_psi, Tail(xs),
                      IF where /= <<>> THEN CAdd(acc, CMul(CConj(Head(xs)[2]), where[1])) ELSE acc)

\* energy(hamiltonian, psi) is num / den: psi and H psi both carry 1 / sqrt(den).
Energy(specs, s) ==
    LET h_psis == { BuilderRun(
                        NewQuantumState(s.soft_max, EstimateHardMax(s), NumberWorkers(s), s.random),
                        EnergyUpdates(specs, s)) }
        results == { [num |-> EnergySum(h_psi, ForEach(s), CZero), den |-> s.den] : h_psi \in h_psis }
    IN CHOOSE r \in results : TRUE

-----------------------------------------------------------------------------
(* normalize *)

\* A plausible slip: the norm accumulated over the first table only.
StateNormFirstTable(s) ==
    LET ks == SetToSeq(DOMAIN s.maps[1])
    IN SumSeq([n \in 1..Len(ks) |-> CNorm(s.maps[1][ks[n]])])

\* The first loop of normalize(): the sum of std::norm over every table.
StateNorm(s) ==
    SumSeq([i \in 1..Len(s.maps) |->
               LET ks == SetToSeq(DOMAIN s.maps[i])
               IN SumSeq([n \in 1..Len(ks) |-> CNorm(s.maps[i][ks[n]])])])

\* A plausible slip: the scale never applied.
NormalizeMissing(s) == s

\* coeff *= 1 / sqrt(norm): the stored numerators stay, the squared scale becomes norm.
NormalizeOp(s) == [s EXCEPT !.den = StateNorm(s)]

-----------------------------------------------------------------------------
(* WeightedDistribution (Walker's alias method), exact: after normalise_weights  *)
(* a weight w stands for w / unit, so that the constant 1.0 of the code is unit. *)

WeightSum(weights) == SumSeq(weights)

\* A plausible slip: the weights scaled to sum 1 instead of n.
NormaliseWeightsToOne(weights) == weights

\* normalise_weights: w *= n / sum, kept as numerators over unit = sum.
NormaliseWeights(weights) == [i \in 1..Len(weights) |-> weights[i] * Len(weights)]

\* partition_indices: the indices with weight < 1 first, then the others.
PartitionIndices(w, unit) ==
    [small |-> SelectSeq([i \in 1..Len(w) |-> i], LAMBDA i : w[i] < unit),
     large |-> SelectSeq([i \in 1..Len(w) |-> i], LAMBDA i : ~(w[i] < unit))]

RECURSIVE AliasLoop(_, _, _, _, _, _, _, _)
AliasLoop(small, large, is, il, w, prob, alias, unit) ==
    IF is <= Len(small) /\ il <= Len(large)
    THEN LET low == small[is]
             high == large[il]
             prob1 == [prob EXCEPT ![low] = w[low]]
             alias1 == [alias EXCEPT ![low] = high]
             w1 == [w EXCEPT ![high] = (w[low] + w[high]) - unit]
         IN IF w1[high] < unit
            THEN AliasLoop([small EXCEPT ![is] = high], large, is, il + 1, w1, prob1, alias1, unit)
            ELSE AliasLoop(small, large, is + 1, il, w1, prob1, alias1, unit)
    ELSE LET restLarge == { large[n] : n \in il..Len(large) }
             restSmall == { small[n] : n \in is..Len(small) }
         IN [prob |-> [i \in 1..Len(w) |-> IF i \in restLarge \cup restSmall THEN unit ELSE prob[i]],
             alias |-> [i \in 1..Len(w) |-> IF i \in restLarge \cup restSmall THEN 0 ELSE alias[i]],
             unit |-> unit]

\* WeightedDistribution::init, for weights whose sum is not 0. Indices are 1-based
\* here; alias 0 is the sentinel numeric_limits<size_t>::max().
WeightedDistributionInit(weights) ==
    LET unit == WeightSum(weights)
        w == NormaliseWeights(weights)
        parts == PartitionIndices(w, unit)
    IN AliasLoop(parts.small, parts.large, 1, 1, w,
                 [i \in 1..Len(w) |-> 0], [i \in 1..Len(w) |-> 0], unit)

\* A plausible slip: the uniform index returned without the test against prob.
DrawOutcomesUniform(dist) == 1..Len(dist.prob)

\* WeightedDistribution::operator(): the indices a draw can return, over every
\* index in [0, n) and every choice in [0, 1).
DrawOutcomes(dist) ==
    { i \in 1..Len(dist.prob) : dist.prob[i] > 0 }
    \cup { dist.alias[i] : i \in { j \in 1..Len(dist.prob) : dist.prob[j] < dist.unit } }

-----------------------------------------------------------------------------
(* Truncation *)

\* The buffer remove_least and random_resample gather: every entry of every table.
GatherItems(s) ==
    Concat([i \in 1..Len(s.maps) |-> TableEntries(s.maps[i])])

\* A plausible slip: the comparator reversed.
ItemGreater(x, y) == x[2] > y[2]

\* The comparator remove_least gives std::partial_sort.
ItemLess(x, y) == x[2] < y[2]

\* std::partial_sort(first, first + count, last): the possible contents of
\* [first, first + count): a least element under the comparator, then a least
\* of the rest, and so on; elements the comparator does not order may come in
\* any order. Items are <<key, norm, position in the buffer>>.
RECURSIVE PartialSortPrefixes(_, _)
PartialSortPrefixes(items, count) ==
    IF count = 0 \/ items = {} THEN {<<>>}
    ELSE UNION { { <<x>> \o p : p \in PartialSortPrefixes(items \ {x}, count - 1) } :
                 x \in { y \in items : \A z \in items : ~ItemLess(z, y) } }

RECURSIVE EraseAll(_, _)
EraseAll(s, victims) ==
    IF victims = <<>> THEN s
    ELSE LET key == Head(victims)[1]
             idx == SpinToIndex1(key, NumberWorkers(s)) + 1
         IN EraseAll([s EXCEPT !.maps[idx] = MapErase(@, key)], Tail(victims))

\* QuantumState::remove_least: the states it can leave.
RemoveLeast(s, count) ==
    LET buffer == GatherItems(s)
        items == { <<buffer[n][1], CNorm(buffer[n][2]), n>> : n \in 1..Len(buffer) }
    IN { EraseAll(s, victims) : victims \in PartialSortPrefixes(items, count) }

\* A plausible slip: the tables are left as they are, to be replaced only
\* once the distribution has been built.
ClearTablesDeferred(s) == s

ClearTables(s) == [s EXCEPT !.maps = [i \in 1..Len(s.maps) |-> EmptyMap]]

ResampleWeights(s) ==
    LET items == GatherItems(s) IN [n \in 1..Len(items) |-> CNorm(items[n][2])]

\* A plausible slip: the zero test of normalise_weights inverted into "always".
ResampleAlwaysThrows(s) == TRUE

\* random_resample fails in normalise_weights when the weights sum to 0.
ResampleThrows(s) == WeightSum(ResampleWeights(s)) = 0

RECURSIVE InsertDraws(_, _, _)
InsertDraws(s, items, draws) ==
    IF draws = <<>> THEN s
    ELSE InsertDraws(StateInsert(s, items[Head(draws)][1], items[Head(draws)][2]),
                     items, Tail(draws))

\* QuantumState::random_resample(count, gen): the states it can leave.
RandomResample(s, count) ==
    LET items == GatherItems(s)
        dist == WeightedDistributionInit(ResampleWeights(s))
    IN { InsertDraws(ClearTables(s), items, draws) :
         draws \in [1..count -> DrawOutcomes(dist)] }

\* A plausible slip: the hard cap used where the soft cap is meant.
ShrinkToHardMax(s) ==
    IF StateSize(s) > s.hard_max THEN RemoveLeast(s, StateSize(s) - s.hard_max) ELSE {s}

\* QuantumState::shrink in deterministic mode.
ShrinkDeterministic(s) ==
    IF StateSize(s) > s.soft_max THEN RemoveLeast(s, StateSize(s) - s.soft_max) ELSE {s}

-----------------------------------------------------------------------------
(* Inputs of the driver *)

KeyBits == { <<0, 0>>, <<0, 1>>, <<1, 0>>, <<1, 1>> }

Keys == { MakeSpinVector(b) : b \in KeyBits }

Amps == { <<1, 0>>, <<0, -2>> }

Lambdas == { 0, 2 }

WorkerCounts == { 1, 2, 8 }

SoftMaxes == { 2, 3 }

\* Stochastic truncation is explored with the smallest soft cap only.
Configs ==
    { c \in [soft_max : SoftMaxes, random : BOOLEAN] :
        c.random => \A m \in SoftMaxes : c.soft_max <= m }

HamZero == <<>>

HamPair == << [coupling |-> <<1, 0>>, edges |-> << <<0, 1>> >>] >>

HamMixed ==
    << [coupling |-> <<0, 1>>, edges |-> << <<0, 1>>, <<1, 1>> >>],
       [coupling |-> <<1, 0>>, edges |-> <<>>],
       [coupling |-> <<-1, 0>>, edges |-> << <<1, 0>> >>] >>

Hams == { HamZero, HamPair, HamMixed }

InputStates ==
    UNION { [D -> Amps] : D \in { E \in SUBSET Keys : Cardinality(E) <= MaxEntries } }

\* operator>>(istream&, QuantumState&) on a text without duplicate keys:
\* every line is inserted.
RECURSIVE InsertAll(_, _, _)
InsertAll(s, f, ks) ==
    IF ks = <<>> THEN s
    ELSE InsertAll(StateInsert(s, Head(ks), f[Head(ks)]), f, Tail(ks))

ReadState(s, f) == InsertAll(ClearTables(s), f, SetToSeq(DOMAIN f))

-----------------------------------------------------------------------------
(* The driver: main and diffusion_loop *)

BuildIdle ==
    /\ queue = <<>>
    /\ done = <<>>
    /\ cpc = <<>>
    /\ total = <<>>
    /\ nadds = <<>>

FunIdle ==
    /\ fin = <<>>
    /\ fout = <<>>

\* main after the state and the Hamiltonian have been read.
Init ==
    /\ pc = "energy0"
    /\ \E c \in Configs, n \in WorkerCounts, f \in InputStates :
           psi = ReadState(NewQuantumState(c.soft_max, 2 * c.soft_max, n, c.random), f)
    /\ prev = psi
    /\ built = psi
    /\ lambda \in Lambdas
    /\ ham \in Hams
    /\ iterations \in 0..MaxIter
    /\ iter = 0
    /\ oplog = <<>>
    /\ energy_val = <<>>
    /\ BuildIdle
    /\ FunIdle

MainInitialEnergy ==
    /\ pc = "energy0"
    /\ energy_val' = Append(energy_val, Energy(ham, psi))
    /\ pc' = "loop_enter"
    /\ UNCHANGED <<psi, prev, built, lambda, ham, iterations, iter, oplog>>
    /\ UNCHANGED <<buildVars, funVars>>

\* A plausible slip: diffusion_loop without its check of iterations.
DiffusionLoopEnterNoCheck ==
    /\ pc = "loop_enter"
    /\ pc' = "trotter"
    /\ UNCHANGED <<psi, prev, built, lambda, ham, iterations, iter, oplog, energy_val>>
    /\ UNCHANGED <<buildVars, funVars>>

\* diffusion_loop: iterations == 0 throws.
DiffusionLoopEnter ==
    /\ pc = "loop_enter"
    /\ pc' = IF iterations = 0 THEN "error" ELSE "trotter"
    /\ UNCHANGED <<psi, prev, built, lambda, ham, iterations, iter, oplog, energy_val>>
    /\ UNCHANGED <<buildVars, funVars>>

TrotterStep ==
    /\ pc = "trotter"
    /\ prev' = psi
    /\ psi' = TrotterStepOp(lambda, ham, psi)
    /\ built' = psi'
    /\ oplog' = Append(oplog, "trotter_step")
    /\ pc' = "shrink"
    /\ UNCHANGED <<lambda, ham, iterations, iter, energy_val>>
    /\ UNCHANGED <<buildVars, funVars>>

Shrink ==
    /\ pc = "shrink"
    /\ oplog' = Append(oplog, "shrink")
    /\ IF psi.random
       THEN IF ResampleThrows(psi)
            THEN /\ psi' = ClearTables(psi)
                 /\ pc' = "error"
            ELSE /\ psi' \in RandomResample(psi, psi.soft_max)
                 /\ pc' = "normalize"
       ELSE /\ psi' \in ShrinkDeterministic(psi)
            /\ pc' = "normalize"
    /\ UNCHANGED <<prev, built, lambda, ham, iterations, iter, energy_val>>
    /\ UNCHANGED <<buildVars, funVars>>

Normalize ==
    /\ pc = "normalize"
    /\ psi' = NormalizeOp(psi)
    /\ oplog' = Append(oplog, "normalize")
    /\ iter' = iter + 1
    /\ pc' = "loop_test"
    /\ UNCHANGED <<prev, built, lambda, ham, iterations, energy_val>>
    /\ UNCHANGED <<buildVars, funVars>>

\* A plausible slip: one iteration too many.
LoopConditionInclusive(i, n) == i <= n

\* The condition of the for loop of diffusion_loop.
LoopCondition(i, n) == i < n

LoopTest ==
    /\ pc = "loop_test"
    /\ pc' = IF LoopCondition(iter, iterations) THEN "trotter" ELSE "energy1"
    /\ UNCHANGED <<psi, prev, built, lambda, ham, iterations, iter, oplog, energy_val>>
    /\ UNCHANGED <<buildVars, funVars>>

MainFinalEnergy ==
    /\ pc = "energy1"
    /\ energy_val' = Append(energy_val, Energy(ham, psi))
    /\ pc' = "done"
    /\ UNCHANGED <<psi, prev, built, lambda, ham, iterations, iter, oplog>>
    /\ UNCHANGED <<buildVars, funVars>>

Next ==
    \/ MainInitialEnergy
    \/ DiffusionLoopEnter
    \/ TrotterStep
    \/ Shrink
    \/ Normalize
    \/ LoopTest
    \/ MainFinalEnergy

Spec == Init /\ [][Next]_vars

-----------------------------------------------------------------------------
(* A build: one producer (the caller of QuantumStateBuilder) and one consumer  *)
(* thread per Updater. psi is the state being built.                           *)

BuildKeyBits == { <<0, 0>>, <<0, 1>>, <<1, 0>> }

BuildKeys == { MakeSpinVector(b) : b \in BuildKeyBits }

BuildDeltas == { <<1, 0>>, <<-1, 0>> }

BuildWorkerCounts == { 1, 2 }

\* The smallest soft cap the QuantumState constructor accepts.
MinSoftMax == 2

DriverIdle ==
    /\ prev = psi
    /\ built = psi
    /\ lambda = 0
    /\ ham = <<>>
    /\ iterations = 0
    /\ iter = 0
    /\ oplog = <<>>
    /\ energy_val = <<>>

\* QuantumStateBuilder constructed over an empty state: every Updater has
\* _done = true, an empty queue and no thread.
InitBuild ==
    /\ pc = "start"
    /\ \E n \in BuildWorkerCounts :
           /\ psi = NewQuantumState(MinSoftMax, MinSoftMax, n, FALSE)
           /\ queue = [i \in 1..n |-> <<>>]
           /\ done = [i \in 1..n |-> TRUE]
           /\ cpc = [i \in 1..n |-> "none"]
    /\ total = [k \in BuildKeys |-> CZero]
    /\ nadds = [k \in BuildKeys |-> 0]
    /\ DriverIdle
    /\ FunIdle

\* history: the number of add calls the producer has made.
AddsIssued ==
    SumSeq([n \in 1..Cardinality(BuildKeys) |-> nadds[SetToSeq(BuildKeys)[n]]])

buildIdleVars == <<prev, built, lambda, ham, iterations, iter, oplog, energy_val, fin, fout>>

\* QuantumStateBuilder::start: Updater::start on each updater in turn.
StartUpdater(i) ==
    /\ pc = "start"
    /\ cpc[i] = "none"
    /\ \A j \in 1..(i - 1) : cpc[j] /= "none"
    /\ done' = [done EXCEPT ![i] = FALSE]
    /\ cpc' = [cpc EXCEPT ![i] = "outer"]
    /\ pc' = IF i = Len(cpc) THEN "add" ELSE "start"
    /\ UNCHANGED <<psi, queue, total, nadds>>
    /\ UNCHANGED buildIdleVars

\* QuantumStateBuilder::operator+= and Updater::operator(): start the updater
\* if it is not running, then push, retrying while the ring is full.
Add(a, k) ==
    /\ pc = "add"
    /\ AddsIssued < MaxAdds
    /\ LET i == Route(<<a, k>>, Len(queue))
       IN /\ Len(queue[i]) < QueueCapacity
          /\ queue' = [queue EXCEPT ![i] = Append(@, <<k, a>>)]
          /\ done' = [done EXCEPT ![i] = FALSE]
          /\ cpc' = IF done[i] THEN [cpc EXCEPT ![i] = "outer"] ELSE cpc
    /\ total' = [total EXCEPT ![k] = CAdd(@, a)]
    /\ nadds' = [nadds EXCEPT ![k] = @ + 1]
    /\ UNCHANGED <<pc, psi>>
    /\ UNCHANGED buildIdleVars

\* The producer has issued its last add.
ProducerFinish ==
    /\ pc = "add"
    /\ pc' = "stop"
    /\ UNCHANGED <<psi, queue, done, cpc, total, nadds>>
    /\ UNCHANGED buildIdleVars

\* QuantumStateBuilder::stop, updater i: _done = true.
StopSetDone(i) ==
    /\ pc = "stop"
    /\ \A j \in 1..(i - 1) : cpc[j] = "joined"
    /\ cpc[i] /= "joined"
    /\ ~done[i]
    /\ done' = [done EXCEPT ![i] = TRUE]
    /\ UNCHANGED <<pc, psi, queue, cpc, total, nadds>>
    /\ UNCHANGED buildIdleVars

\* A plausible slip: the worker is detached, so stop() does not wait for it.
StopJoinNoWait(i) ==
    /\ pc = "stop"
    /\ \A j \in 1..(i - 1) : cpc[j] = "joined"
    /\ done[i]
    /\ cpc[i] /= "joined"
    /\ cpc' = [cpc EXCEPT ![i] = "joined"]
    /\ pc' = IF i = Len(cpc) THEN "stopped" ELSE "stop"
    /\ UNCHANGED <<psi, queue, done, total, nadds>>
    /\ UNCHANGED buildIdleVars

\* QuantumStateBuilder::stop, updater i: _worker.join() returns.
StopJoin(i) ==
    /\ pc = "stop"
    /\ \A j \in 1..(i - 1) : cpc[j] = "joined"
    /\ done[i]
    /\ cpc[i] = "exited"
    /\ cpc' = [cpc EXCEPT ![i] = "joined"]
    /\ pc' = IF i = Len(cpc) THEN "stopped" ELSE "stop"
    /\ UNCHANGED <<psi, queue, done, total, nadds>>
    /\ UNCHANGED buildIdleVars

\* A plausible slip: the consumer leaves without draining the ring.
ConsumerAfterTestNoDrain(d) == IF ~d THEN "inner" ELSE "exited"

\* while (!_done) { ... } ; then the drain loop.
ConsumerAfterTest(d) == IF ~d THEN "inner" ELSE "drain"

ConsumerTestDone(i) ==
    /\ cpc[i] = "outer"
    /\ cpc' = [cpc EXCEPT ![i] = ConsumerAfterTest(done[i])]
    /\ UNCHANGED <<pc, psi, queue, done, total, nadds>>
    /\ UNCHANGED buildIdleVars

\* A plausible slip: the builder constructed over the input state instead of
\* h_psi, so that the consumers write into the tables of the input.
PopAndProcessOnInput(i, at, after) ==
    /\ cpc[i] = at
    /\ IF queue[i] /= <<>>
       THEN /\ prev' = [prev EXCEPT !.maps[i] = UnsafeProcess(@, Head(queue[i])[1], Head(queue[i])[2])]
            /\ queue' = [queue EXCEPT ![i] = Tail(@)]
            /\ cpc' = cpc
       ELSE /\ cpc' = [cpc EXCEPT ![i] = after]
            /\ UNCHANGED <<prev, queue>>
    /\ UNCHANGED <<pc, psi, done, total, nadds>>
    /\ UNCHANGED <<built, lambda, ham, iterations, iter, oplog, energy_val, fin, fout>>

\* A plausible slip: every updater is built on the table after its own.
PopAndProcessNextTable(i, at, after) ==
    /\ cpc[i] = at
    /\ IF queue[i] /= <<>>
       THEN /\ psi' = [psi EXCEPT !.maps[(i % Len(cpc)) + 1] =
                                      UnsafeProcess(@, Head(queue[i])[1], Head(queue[i])[2])]
            /\ queue' = [queue EXCEPT ![i] = Tail(@)]
            /\ cpc' = cpc
       ELSE /\ cpc' = [cpc EXCEPT ![i] = after]
            /\ UNCHANGED <<psi, queue>>
    /\ UNCHANGED <<pc, done, total, nadds>>
    /\ UNCHANGED buildIdleVars

\* One round of while (_queue.pop(x)) unsafe_process(x), in the loop `at`;
\* an empty ring leaves the loop for `after`.
PopAndProcess(i, at, after) ==
    /\ cpc[i] = at
    /\ IF queue[i] /= <<>>
       THEN /\ psi' = [psi EXCEPT !.maps[i] = UnsafeProcess(@, Head(queue[i])[1], Head(queue[i])[2])]
            /\ queue' = [queue EXCEPT ![i] = Tail(@)]
            /\ cpc' = cpc
       ELSE /\ cpc' = [cpc EXCEPT ![i] = after]
            /\ UNCHANGED <<psi, queue>>
    /\ UNCHANGED <<pc, done, total, nadds>>
    /\ UNCHANGED buildIdleVars

ConsumerPop(i) == PopAndProcess(i, "inner", "outer")

ConsumerDrain(i) == PopAndProcess(i, "drain", "exited")

NextBuild ==
    \/ \E i \in 1..Len(cpc) : StartUpdater(i)
    \/ \E a \in BuildDeltas, k \in BuildKeys : Add(a, k)
    \/ ProducerFinish
    \/ \E i \in 1..Len(cpc) : StopSetDone(i)
    \/ \E i \in 1..Len(cpc) : StopJoin(i)
    \/ \E i \in 1..Len(cpc) : ConsumerTestDone(i)
    \/ \E i \in 1..Len(cpc) : ConsumerPop(i)
    \/ \E i \in 1..Len(cpc) : ConsumerDrain(i)

SpecBuild == InitBuild /\ [][NextBuild]_vars

-----------------------------------------------------------------------------
(* The builder as a client may use it: pushes without a call of start(), and *)
(* pushes after stop() has returned.                                         *)

\* The client either calls start() first or goes straight to operator+=.
InitLifecycle ==
    /\ pc \in { "start", "add" }
    /\ \E n \in BuildWorkerCounts :
           /\ psi = NewQuantumState(MinSoftMax, MinSoftMax, n, FALSE)
           /\ queue = [i \in 1..n |-> <<>>]
           /\ done = [i \in 1..n |-> TRUE]
           /\ cpc = [i \in 1..n |-> "none"]
    /\ total = [k \in BuildKeys |-> CZero]
    /\ nadds = [k \in BuildKeys |-> 0]
    /\ DriverIdle
    /\ FunIdle

\* operator+= after stop() has returned: _done is true, the ring is empty and
\* the worker is joined, so Updater::operator() calls start() and pushes.
AddStopped(a, k) ==
    /\ pc = "stopped"
    /\ AddsIssued < MaxAdds
    /\ LET i == Route(<<a, k>>, Len(queue))
       IN /\ done[i]
          /\ queue[i] = <<>>
          /\ cpc[i] = "joined"
          /\ queue' = [queue EXCEPT ![i] = Append(@, <<k, a>>)]
          /\ done' = [done EXCEPT ![i] = FALSE]
          /\ cpc' = [cpc EXCEPT ![i] = "outer"]
    /\ total' = [total EXCEPT ![k] = CAdd(@, a)]
    /\ nadds' = [nadds EXCEPT ![k] = @ + 1]
    /\ pc' = "add"
    /\ UNCHANGED psi
    /\ UNCHANGED buildIdleVars

NextLifecycle ==
    \/ NextBuild
    \/ \E a \in BuildDeltas, k \in BuildKeys : AddStopped(a, k)

SpecLifecycle == InitLifecycle /\ [][NextLifecycle]_vars

-----------------------------------------------------------------------------
(* QuantumState::for_each, one call of the callback per step. fout holds the *)
(* vector xs of iterator pairs (as the entries still ahead in each table),   *)
(* the loop index i (from 1) and the entries the callback has been given.    *)

MaxVisits == 4

VisitWorkerCounts == { 1, 2, 4 }

VisitKeyBits == { <<a, b, c>> : a \in {0, 1}, b \in {0, 1}, c \in {0, 1} }

VisitKeys == { MakeSpinVector(b) : b \in VisitKeyBits }

\* Every key carries an amplitude of its own.
VisitAmp(k) == <<(SpinData0(k) \div 32) - 3, 1>>

VisitStates ==
    { ReadState(NewQuantumState(MinSoftMax, MinSoftMax, n, FALSE), [k \in D |-> VisitAmp(k)]) :
        n \in VisitWorkerCounts,
        D \in { E \in SUBSET VisitKeys : Cardinality(E) <= MaxVisits } }

InitForEach ==
    /\ pc = "for_each"
    /\ psi \in VisitStates
    /\ fin = <<>>
    /\ fout = <<>>
    /\ DriverIdle
    /\ BuildIdle

visitIdleVars ==
    <<psi, prev, built, lambda, ham, iterations, iter, oplog, energy_val, buildVars, fin>>

\* xs after the first loop: one pair of iterators for every non-empty table.
ForEachBegin ==
    /\ pc = "for_each"
    /\ fout' = [xs |-> SelectSeq([i \in 1..Len(psi.maps) |-> TableEntries(psi.maps[i])],
                                 LAMBDA e : e /= <<>>),
                i |-> 1,
                acc |-> <<>>]
    /\ pc' = "visit"
    /\ UNCHANGED visitIdleVars

\* A plausible slip: the exhausted pair is not swapped to the back before
\* pop_back.
ForEachStepNoSwap(c) ==
    LET i == IF c.i > Len(c.xs) THEN 1 ELSE c.i
        x == c.xs[i]
    IN [xs |-> IF Tail(x) = <<>>
               THEN SubSeq(c.xs, 1, Len(c.xs) - 1)
               ELSE [c.xs EXCEPT ![i] = Tail(x)],
        i |-> i + 1,
        acc |-> Append(c.acc, Head(x))]

\* One pass of the body of the inner for, entered from the while test when
\* the index has run past the end: fn(*x.first); ++x.first; swap and pop_back
\* if the table is exhausted; ++i.
ForEachStep(c) ==
    LET i == IF c.i > Len(c.xs) THEN 1 ELSE c.i
        x == c.xs[i]
    IN [xs |-> IF Tail(x) = <<>>
               THEN SubSeq([c.xs EXCEPT ![i] = c.xs[Len(c.xs)]], 1, Len(c.xs) - 1)
               ELSE [c.xs EXCEPT ![i] = Tail(x)],
        i |-> i + 1,
        acc |-> Append(c.acc, Head(x))]

ForEachCall ==
    /\ pc = "visit"
    /\ fout.xs /= <<>>
    /\ fout' = ForEachStep(fout)
    /\ UNCHANGED pc
    /\ UNCHANGED visitIdleVars

\* while (!xs.empty()) fails: for_each returns.
ForEachEnd ==
    /\ pc = "visit"
    /\ fout.xs = <<>>
    /\ pc' = "visited"
    /\ UNCHANGED fout
    /\ UNCHANGED visitIdleVars

NextForEach ==
    \/ ForEachBegin
    \/ ForEachCall
    \/ ForEachEnd

\* for_each runs on one thread, which keeps running.
SpecForEach == InitForEach /\ [][NextForEach]_vars /\ WF_vars(NextForEach)

-----------------------------------------------------------------------------
(* One build as the program runs it: trotter_step or energy on the state prev, *)
(* with the builder, its consumer threads and the retry of a push on a full    *)
(* ring spelled out, followed for trotter_step by shrink and normalize as in   *)
(* diffusion_loop. psi is h_psi; fin says which of the two functions runs;     *)
(* fout is the sequence of updates the producer has pushed so far.             *)

StepModes == { "trotter_step", "energy" }

\* The updates the callback of for_each pushes, in order, for the function
\* mode run on the state s.
UpdatesOf(mode, l, h, s) ==
    IF mode = "energy" THEN EnergyUpdates(h, s) ELSE TrotterUpdates(l, h, s)

\* for_each runs over the unchanged input state, so the updates of a build
\* are fixed when it starts: fin holds them with the function that runs.
StepUpdates == fin.updates

\* One term on a self edge: with lambda equal to its coupling the two updates
\* of a key, -coupling * c and lambda * c, sum to zero.
HamSelf == << [coupling |-> <<2, 0>>, edges |-> << <<0, 0>> >>] >>

StepHams == Hams \cup { HamSelf }

InitStep ==
    /\ pc = "start"
    /\ fout = <<>>
    /\ lambda \in Lambdas
    /\ ham \in StepHams
    /\ \E c \in Configs, n \in BuildWorkerCounts, f \in InputStates :
           prev = ReadState(NewQuantumState(c.soft_max, 2 * c.soft_max, n, c.random), f)
    /\ \E mode \in StepModes :
           fin = [mode |-> mode, updates |-> UpdatesOf(mode, lambda, ham, prev)]
    /\ Len(StepUpdates) <= MaxAdds
    /\ psi = [NewQuantumState(prev.soft_max, EstimateHardMax(prev), NumberWorkers(prev),
                              prev.random)
                 EXCEPT !.den = IF fin.mode = "energy" THEN 1 ELSE prev.den]
    /\ built = psi
    /\ iterations = 1
    /\ iter = 0
    /\ oplog = <<>>
    /\ energy_val = <<>>
    /\ queue = [i \in 1..NumberWorkers(prev) |-> <<>>]
    /\ done = [i \in 1..NumberWorkers(prev) |-> TRUE]
    /\ cpc = [i \in 1..NumberWorkers(prev) |-> "none"]
    /\ total = [k \in Keys |-> CZero]
    /\ nadds = [k \in Keys |-> 0]

stepIdleVars == <<prev, built, lambda, ham, iterations, iter, oplog, energy_val, fin>>

\* The update the callback of for_each is at.
NextUpdate == StepUpdates[Len(fout) + 1]

\* The callback of for_each has its next update: QuantumStateBuilder::operator+=
\* calls Updater::operator().
StepAdd ==
    /\ pc = "add"
    /\ Len(fout) < Len(StepUpdates)
    /\ pc' = "push"
    /\ UNCHANGED <<psi, queue, done, cpc, total, nadds, fout>>
    /\ UNCHANGED stepIdleVars

\* A plausible slip: a push on a full ring overwrites the oldest record.
RingPushOverwrite(q, x) ==
    IF Len(q) < QueueCapacity THEN [ok |-> TRUE, queue |-> Append(q, x)]
    ELSE [ok |-> TRUE, queue |-> Append(Tail(q), x)]

\* spsc_queue::push: false, and nothing enqueued, when the ring is full.
RingPush(q, x) ==
    IF Len(q) < QueueCapacity THEN [ok |-> TRUE, queue |-> Append(q, x)]
    ELSE [ok |-> FALSE, queue |-> q]

\* One evaluation of !_queue.push(value) for the pending update, by the
\* updater it is routed to.
PushAttempt ==
    LET u == NextUpdate
        i == Route(u, Len(queue))
        r == RingPush(queue[i], <<u[2], u[1]>>)
    IN /\ queue' = [queue EXCEPT ![i] = r.queue]
       /\ IF r.ok
          THEN /\ pc' = "add"
               /\ fout' = Append(fout, u)
               /\ total' = [total EXCEPT ![u[2]] = CAdd(@, u[1])]
               /\ nadds' = [nadds EXCEPT ![u[2]] = @ + 1]
          ELSE /\ pc' = "retry"
               /\ UNCHANGED <<fout, total, nadds>>

\* Updater::operator(): if (_done) start(); then the first push.
StepPush ==
    /\ pc = "push"
    /\ LET i == Route(NextUpdate, Len(queue))
       IN /\ done' = [done EXCEPT ![i] = FALSE]
          /\ cpc' = IF done[i] THEN [cpc EXCEPT ![i] = "outer"] ELSE cpc
    /\ PushAttempt
    /\ UNCHANGED psi
    /\ UNCHANGED stepIdleVars

\* while (!_queue.push(value)) ; : another push after a failed one.
StepRetry ==
    /\ pc = "retry"
    /\ PushAttempt
    /\ UNCHANGED <<psi, done, cpc>>
    /\ UNCHANGED stepIdleVars

\* A plausible slip: the call of stop() left out.
StepFinishNoStop ==
    /\ pc = "add"
    /\ Len(fout) = Len(StepUpdates)
    /\ pc' = "stopped"
    /\ UNCHANGED <<psi, queue, done, cpc, total, nadds, fout>>
    /\ UNCHANGED stepIdleVars

\* for_each has returned: h_psi_builder.stop() is called.
StepFinish ==
    /\ pc = "add"
    /\ Len(fout) = Len(StepUpdates)
    /\ pc' = "stop"
    /\ UNCHANGED <<psi, queue, done, cpc, total, nadds, fout>>
    /\ UNCHANGED stepIdleVars

\* trotter_step returns h_psi to diffusion_loop.
StepReturn ==
    /\ pc = "stopped"
    /\ fin.mode = "trotter_step"
    /\ built' = psi
    /\ oplog' = Append(oplog, "trotter_step")
    /\ pc' = "shrink"
    /\ UNCHANGED <<psi, prev, lambda, ham, iterations, iter, energy_val>>
    /\ UNCHANGED <<buildVars, funVars>>

\* energy(): the second for_each, over psi, reading h_psi.
StepEnergySum ==
    /\ pc = "stopped"
    /\ fin.mode = "energy"
    /\ energy_val' = Append(energy_val,
                            [num |-> EnergySum(psi, ForEach(prev), CZero), den |-> prev.den])
    /\ pc' = "energy_done"
    /\ UNCHANGED <<psi, prev, built, lambda, ham, iterations, iter, oplog>>
    /\ UNCHANGED <<buildVars, funVars>>

\* The steps of the thread that runs trotter_step, energy and diffusion_loop.
ProducerStep ==
    \/ \E i \in 1..Len(cpc) : StartUpdater(i)
    \/ StepAdd
    \/ StepPush
    \/ StepRetry
    \/ StepFinish
    \/ \E i \in 1..Len(cpc) : StopSetDone(i)
    \/ \E i \in 1..Len(cpc) : StopJoin(i)
    \/ StepReturn
    \/ StepEnergySum
    \/ Shrink
    \/ Normalize

\* The steps of the consumer thread of updater i.
ConsumerStep(i) ==
    /\ i \in 1..Len(cpc)
    /\ (ConsumerTestDone(i) \/ ConsumerPop(i) \/ ConsumerDrain(i))

NextStep ==
    \/ ProducerStep
    \/ \E i \in 1..Len(cpc) : ConsumerTestDone(i)
    \/ \E i \in 1..Len(cpc) : ConsumerPop(i)
    \/ \E i \in 1..Len(cpc) : ConsumerDrain(i)

SpecStep == InitStep /\ [][NextStep]_vars

\* The largest number of shards a build is run with.
MaxWorkers == CHOOSE n \in BuildWorkerCounts : \A m \in BuildWorkerCounts : m <= n

\* Scheduling does not depend on the amplitudes: progress is explored on the
\* deterministic builds of the states whose amplitudes are all one, with the
\* smallest soft cap and one value of lambda.
InitStepFair ==
    /\ InitStep
    /\ ham \in Hams
    /\ prev.soft_max = MinSoftMax
    /\ ~prev.random
    /\ lambda /= 0
    /\ \A k \in StateKeys(prev) : Amp(prev, k) = <<1, 0>>

\* Every thread that can take a step eventually takes one.
SpecStepFair ==
    /\ InitStepFair
    /\ [][NextStep]_vars
    /\ WF_vars(ProducerStep)
    /\ \A i \in 1..MaxWorkers : WF_vars(ConsumerStep(i))

-----------------------------------------------------------------------------
(* Heisenberg::operator() as a function of its inputs *)

HKeyBits ==
    KeyBits \cup { <<a, b, c>> : a \in {0, 1}, b \in {0, 1}, c \in {0, 1} }

HCoeffs == { <<1, 0>>, <<0, 1>>, <<-2, 1>> }

HamRing ==
    << [coupling |-> <<2, 0>>, edges |-> << <<0, 1>>, <<1, 2>>, <<2, 0>> >>] >>

HSpecs == Hams \cup { HamRing }

EdgesInRange(specs, spin) ==
    \A t \in 1..Len(specs) : \A e \in 1..Len(specs[t].edges) :
        /\ specs[t].edges[e][1] \in 0..(spin.size - 1)
        /\ specs[t].edges[e][2] \in 0..(spin.size - 1)

InitHeisenberg ==
    /\ pc = "heisenberg"
    /\ fin \in { x \in [spin : { MakeSpinVector(b) : b \in HKeyBits },
                        coeff : HCoeffs,
                        specs : HSpecs] : EdgesInRange(x.specs, x.spin) }
    /\ fout = <<>>
    /\ psi = NewQuantumState(MinSoftMax, MinSoftMax, 1, FALSE)
    /\ DriverIdle
    /\ BuildIdle

\* Two calls with the same arguments, the updates of each recorded.
HeisenbergApply ==
    /\ pc = "heisenberg"
    /\ Len(fout) < 2
    /\ fout' = Append(fout, Heisenberg(fin.specs, fin.spin, fin.coeff))
    /\ UNCHANGED <<driverVars, buildVars, fin>>

NextHeisenberg == HeisenbergApply

SpecHeisenberg == InitHeisenberg /\ [][NextHeisenberg]_vars

-----------------------------------------------------------------------------
(* energy() as a function of its inputs *)

EAmps == { <<1, 0>>, <<-2, 0>>, <<0, 1>> }

EKeys == { MakeSpinVector(<<a, b, c>>) : a \in {0, 1}, b \in {0, 1}, c \in {0, 1} }

HamRealMixed ==
    << [coupling |-> <<-3, 0>>, edges |-> << <<0, 2>>, <<1, 2>> >>],
       [coupling |-> <<2, 0>>, edges |-> << <<0, 1>>, <<2, 2>> >>] >>

ESpecs == HSpecs \cup { HamRealMixed }

EStates ==
    UNION { [D -> EAmps] : D \in { E \in SUBSET EKeys : Cardinality(E) <= MaxEntries } }

InitEnergy ==
    /\ pc = "energy"
    /\ \E f \in EStates, n \in BuildWorkerCounts, specs \in ESpecs :
           fin = [specs |-> specs,
                  state |-> ReadState(NewQuantumState(MinSoftMax, 2 * MinSoftMax, n, FALSE), f)]
    /\ fout = <<>>
    /\ psi = NewQuantumState(MinSoftMax, MinSoftMax, 1, FALSE)
    /\ DriverIdle
    /\ BuildIdle

\* Two calls of energy(hamiltonian, psi) with the same arguments.
EnergyApply ==
    /\ pc = "energy"
    /\ Len(fout) < 2
    /\ fout' = Append(fout, Energy(fin.specs, fin.state))
    /\ UNCHANGED <<driverVars, buildVars, fin>>

NextEnergy == EnergyApply

SpecEnergy == InitEnergy /\ [][NextEnergy]_vars

-----------------------------------------------------------------------------
(* Reading a state from text. A line is empty, a comment, or an entry: a run   *)
(* of digits (the bitstring) followed by the numbers found after it.           *)

\* SpinVector::max_size()
MaxSize == 8 * SpinBytes

NoSpin == MakeSpinVector(<<>>)

\* operator>>(std::istream&, SpinVector&): every digit is pushed through
\* to_spin, which throws on a digit other than 0 and 1; the digits collected
\* are handed to SpinVector(begin, end), whose only guard on their number is
\* TCM_ASSERT(n <= 112): with assertions the process is terminated, without them
\* the constructor writes past _data.spin.
ParseSpinStream(digits) ==
    IF \E n \in 1..Len(digits) : digits[n] \notin {0, 1}
    THEN { [kind |-> "error", spin |-> NoSpin] }
    ELSE IF Len(digits) > MaxSize
         THEN { [kind |-> "terminate", spin |-> NoSpin],
                [kind |-> "undefined", spin |-> NoSpin] }
         ELSE { [kind |-> "ok", spin |-> MakeSpinVector(digits)] }

\* The spin array of strtospin is not initialised: the entries after the parsed
\* ones hold anything. The two uniform fills are explored.
TailFills == {0, 1}

\* strtospin(str, str_end) on a string without leading spaces: at most
\* max_size() characters are converted by to_spin, a longer run is an error,
\* and the whole array is returned as a SpinVector.
StrToSpin(digits) ==
    IF digits = <<>>
    THEN { [kind |-> "error", spin |-> NoSpin] }
    ELSE IF \E n \in 1..Len(digits) : n <= MaxSize /\ digits[n] \notin {0, 1}
         THEN { [kind |-> "error", spin |-> NoSpin] }
         ELSE IF Len(digits) > MaxSize
              THEN { [kind |-> "error", spin |-> NoSpin] }
              ELSE { [kind |-> "ok",
                      spin |-> MakeSpinVector(digits \o [n \in 1..(MaxSize - Len(digits)) |-> t])] :
                     t \in TailFills }

\* A plausible slip: the result of insert ignored.
InsertNeverFails(s, k) == FALSE

\* !x.insert({spin, ...}).second: the key is already stored.
InsertFails(s, k) == k \in DOMAIN s.maps[SpinToIndex1(k, NumberWorkers(s)) + 1]

\* The loop of operator>>(std::istream&, QuantumState&) over the lines left:
\* the outcomes [kind, state] it can end with.
RECURSIVE ReadLines(_, _)
ReadLines(s, lines) ==
    IF lines = <<>> THEN { [kind |-> "ok", state |-> s] }
    ELSE LET line == Head(lines)
         IN IF line.kind \in {"empty", "comment"}
            THEN ReadLines(s, Tail(lines))
            ELSE UNION {
                   IF r.kind /= "ok" THEN { [kind |-> r.kind, state |-> s] }
                   ELSE IF Len(line.nums) < 2 THEN { [kind |-> "error", state |-> s] }
                   ELSE IF InsertFails(s, r.spin) THEN { [kind |-> "error", state |-> s] }
                   ELSE ReadLines(StateInsert(s, r.spin, <<line.nums[1], line.nums[2]>>),
                                  Tail(lines))
                   : r \in ParseSpinStream(line.bits) }

\* operator>>(std::istream&, QuantumState&)
ReadStream(s, lines) == ReadLines(ClearTables(s), lines)

Zeros(n) == [i \in 1..n |-> 0]

EntryLine(bits, nums) == [kind |-> "entry", bits |-> bits, nums |-> nums]

TextLines ==
    { [kind |-> "empty", bits |-> <<>>, nums |-> <<>>],
      [kind |-> "comment", bits |-> <<>>, nums |-> <<>>],
      EntryLine(<<0, 1>>, <<1, 0>>),
      EntryLine(<<0, 1>>, <<0, -2>>),
      EntryLine(<<1, 0>>, <<1, 0>>),
      EntryLine(<<0, 2>>, <<1, 0>>),
      EntryLine(<<1, 1>>, <<1>>),
      EntryLine(Zeros(MaxSize), <<1, 0>>),
      EntryLine(Zeros(MaxSize + 1), <<1, 0>>) }

Texts == UNION { [1..n -> TextLines] : n \in 0..MaxLines }

\* The bitstring of the first entry line of a text, if any.
FirstToken(text) ==
    LET at == { n \in 1..Len(text) : text[n].kind = "entry" }
    IN IF at = {} THEN <<>> ELSE text[CHOOSE n \in at : \A m \in at : n <= m].bits

InitParse ==
    /\ pc = "read"
    /\ fin \in [text : Texts, workers : BuildWorkerCounts]
    /\ fout = <<>>
    /\ psi = NewQuantumState(MinSoftMax, 2 * MinSoftMax, fin.workers, FALSE)
    /\ DriverIdle
    /\ BuildIdle

\* is >> state
StreamRead ==
    /\ pc = "read"
    /\ \E r \in ReadStream(psi, fin.text) :
           /\ psi' = r.state
           /\ fout' = Append(fout, [kind |-> r.kind, spin |-> NoSpin])
    /\ pc' = "strtospin"
    /\ prev' = psi'
    /\ built' = psi'
    /\ UNCHANGED <<lambda, ham, iterations, iter, oplog, energy_val, buildVars, fin>>

\* strtospin on the first bitstring of the text.
StrToSpinApply ==
    /\ pc = "strtospin"
    /\ \E r \in StrToSpin(FirstToken(fin.text)) : fout' = Append(fout, r)
    /\ pc' = "parsed"
    /\ UNCHANGED <<psi, prev, built, lambda, ham, iterations, iter, oplog, energy_val>>
    /\ UNCHANGED <<buildVars, fin>>

NextParse == StreamRead \/ StrToSpinApply

SpecParse == InitParse /\ [][NextParse]_vars

-----------------------------------------------------------------------------
(* QuantumState::QuantumState as a function of its arguments *)

\* A plausible slip: the test of soft_max off by one.
ConstructorThrowsBelowOne(soft_max) == soft_max < 1

\* if (soft_max < 2u) throw std::invalid_argument
ConstructorThrows(soft_max) == soft_max < MinSoftMax

CtorArgs ==
    [soft_max : 0..(MinSoftMax + MaxEntries),
     hard_max : {0, MinSoftMax, 2 * MinSoftMax},
     number_workers : 0..MaxWorkerArg,
     random : BOOLEAN]

InitConstruct ==
    /\ pc = "construct"
    /\ fin \in CtorArgs
    /\ fout = <<>>
    /\ psi = NewQuantumState(MinSoftMax, MinSoftMax, 1, FALSE)
    /\ DriverIdle
    /\ BuildIdle

\* The constructor throws: no state comes to exist.
ConstructRejected ==
    /\ pc = "construct"
    /\ ConstructorThrows(fin.soft_max)
    /\ pc' = "error"
    /\ fout' = Append(fout, "invalid_argument")
    /\ UNCHANGED <<psi, prev, built, lambda, ham, iterations, iter, oplog, energy_val>>
    /\ UNCHANGED <<buildVars, fin>>

\* The constructor returns: psi is the new state.
ConstructAccepted ==
    /\ pc = "construct"
    /\ ~ConstructorThrows(fin.soft_max)
    /\ psi' = NewQuantumState(fin.soft_max, fin.hard_max, fin.number_workers, fin.random)
    /\ prev' = psi'
    /\ built' = psi'
    /\ pc' = "constructed"
    /\ fout' = Append(fout, "state")
    /\ UNCHANGED <<lambda, ham, iterations, iter, oplog, energy_val, buildVars, fin>>

NextConstruct == ConstructRejected \/ ConstructAccepted

SpecConstruct == InitConstruct /\ [][NextConstruct]_vars

-----------------------------------------------------------------------------
(* A program run from the command line: parse_options, the construction of    *)
(* the state, the read of the input, then the driver above. fin is the        *)
(* command line and the input text, fout the log of what main has done.       *)

MainTexts ==
    { << EntryLine(<<0, 1>>, <<1, 0>>), EntryLine(<<1, 0>>, <<1, 0>>) >>,
      << [kind |-> "comment", bits |-> <<>>, nums |-> <<>>], EntryLine(<<0, 0>>, <<0, -2>>) >>,
      << EntryLine(<<0, 1>>, <<1, 0>>), EntryLine(<<0, 1>>, <<0, -2>>) >>,
      << >> }

\* --max, --hard-max (absent or given), --iterations, --lambda, --random, the
\* Hamiltonian read from the file of -H, and whether -o names the input file.
CommandLines ==
    [soft_max : 0..MinSoftMax,
     hard_max : { <<>>, <<MinSoftMax>> },
     iterations : 0..MaxIter,
     lambda : Lambdas,
     random : BOOLEAN,
     ham : Hams,
     same_file : BOOLEAN,
     text : MainTexts]

InitMain ==
    /\ pc = "parse_options"
    /\ fin \in CommandLines
    /\ fout = <<>>
    /\ psi = NewQuantumState(MinSoftMax, MinSoftMax, 1, FALSE)
    /\ prev = psi
    /\ built = psi
    /\ lambda = fin.lambda
    /\ ham = fin.ham
    /\ iterations = fin.iterations
    /\ iter = 0
    /\ oplog = <<>>
    /\ energy_val = <<>>
    /\ BuildIdle

\* parse_options: the output file is opened unless it is the input file.
MainParseOptions ==
    /\ pc = "parse_options"
    /\ IF fin.same_file
       THEN /\ pc' = "error"
            /\ fout' = Append(fout, "same_file_error")
       ELSE /\ pc' = "construct"
            /\ fout' = Append(fout, "output_opened")
    /\ UNCHANGED <<psi, prev, built, lambda, ham, iterations, iter, oplog, energy_val>>
    /\ UNCHANGED <<buildVars, fin>>

\* QuantumState state{soft_max, hard_max ? *hard_max : 2 * soft_max, 1, random}
MainConstruct ==
    /\ pc = "construct"
    /\ IF ConstructorThrows(fin.soft_max)
       THEN /\ pc' = "error"
            /\ fout' = Append(fout, "invalid_argument")
            /\ UNCHANGED psi
       ELSE /\ pc' = "read"
            /\ fout' = Append(fout, "state_constructed")
            /\ psi' = NewQuantumState(fin.soft_max,
                                      IF fin.hard_max = <<>> THEN 2 * fin.soft_max
                                      ELSE fin.hard_max[1],
                                      1, fin.random)
    /\ prev' = psi'
    /\ built' = psi'
    /\ UNCHANGED <<lambda, ham, iterations, iter, oplog, energy_val, buildVars, fin>>

\* *input_file >> state, then read_hamiltonian
MainReadState ==
    /\ pc = "read"
    /\ \E r \in ReadStream(psi, fin.text) :
           /\ psi' = r.state
           /\ pc' = IF r.kind = "ok" THEN "energy0"
                    ELSE IF r.kind = "error" THEN "error" ELSE "aborted"
    /\ prev' = psi'
    /\ built' = psi'
    /\ fout' = Append(fout, "input_read")
    /\ UNCHANGED <<lambda, ham, iterations, iter, oplog, energy_val, buildVars, fin>>

NextMain ==
    \/ MainParseOptions
    \/ MainConstruct
    \/ MainReadState
    \/ Next

SpecMain == InitMain /\ [][NextMain]_vars

-----------------------------------------------------------------------------
(* QuantumState::random_resample as a function of the state. built is the     *)
(* state before the call, fout the keys of the items drawn, in order.          *)

ResampleAmps == { <<1, 0>>, <<0, -2>>, <<0, 0>> }

ResampleInputs ==
    UNION { [D -> ResampleAmps] : D \in { E \in SUBSET Keys : Cardinality(E) <= MaxEntries + 1 } }

InitResample ==
    /\ pc = "resample"
    /\ \E soft_max \in SoftMaxes, n \in BuildWorkerCounts, f \in ResampleInputs :
           psi = ReadState(NewQuantumState(soft_max, 2 * soft_max, n, TRUE), f)
    /\ prev = psi
    /\ built = psi
    /\ lambda = 0
    /\ ham = <<>>
    /\ iterations = 0
    /\ iter = 0
    /\ oplog = <<>>
    /\ energy_val = <<>>
    /\ BuildIdle
    /\ FunIdle

\* random_resample(_soft_max_size, gen): the tables are cleared, then the
\* distribution is built (and may throw), then count items are drawn and inserted.
RandomResampleApply ==
    /\ pc = "resample"
    /\ IF ResampleThrows(psi)
       THEN /\ psi' = ClearTables(psi)
            /\ pc' = "error"
            /\ fout' = fout
       ELSE LET items == GatherItems(psi)
                dist == WeightedDistributionInit(ResampleWeights(psi))
            IN \E draws \in [1..psi.soft_max -> DrawOutcomes(dist)] :
                   /\ psi' = InsertDraws(ClearTables(psi), items, draws)
                   /\ fout' = [n \in 1..psi.soft_max |-> items[draws[n]][1]]
                   /\ pc' = "resampled"
    /\ UNCHANGED <<prev, built, lambda, ham, iterations, iter, oplog, energy_val>>
    /\ UNCHANGED <<buildVars, fin>>

NextResample == RandomResampleApply

SpecResample == InitResample /\ [][NextResample]_vars

-----------------------------------------------------------------------------
(* WeightedDistribution as a function of its weights: construction, then one   *)
(* draw. fin is the weight vector, fout the table followed by the index drawn. *)

MaxWeight == 3

WeightVectors == UNION { [1..n -> 0..MaxWeight] : n \in 1..(MaxEntries + 2) }

\* The enumerations of a finite set.
RECURSIVE Perms(_)
Perms(S) ==
    IF S = {} THEN { <<>> }
    ELSE UNION { { <<x>> \o p : p \in Perms(S \ {x}) } : x \in S }

\* std::partition does not say in which order it leaves either part.
PartitionOrders(w, unit) ==
    { [small |-> a, large |-> b] :
        a \in Perms({ i \in 1..Len(w) : w[i] < unit }),
        b \in Perms({ i \in 1..Len(w) : ~(w[i] < unit) }) }

\* WeightedDistribution::init for weights whose sum is not 0: the tables it can
\* build, one per order std::partition may produce.
AliasTables(weights) ==
    LET unit == WeightSum(weights)
        w == NormaliseWeights(weights)
    IN { AliasLoop(parts.small, parts.large, 1, 1, w,
                   [i \in 1..Len(w) |-> 0], [i \in 1..Len(w) |-> 0], unit) :
         parts \in PartitionOrders(w, unit) }

InitAlias ==
    /\ pc = "alias_init"
    /\ fin \in WeightVectors
    /\ fout = <<>>
    /\ psi = NewQuantumState(MinSoftMax, MinSoftMax, 1, TRUE)
    /\ DriverIdle
    /\ BuildIdle

\* WeightedDistribution dist{weights}
DistributionInit ==
    /\ pc = "alias_init"
    /\ IF WeightSum(fin) = 0
       THEN /\ pc' = "error"
            /\ fout' = fout
       ELSE /\ pc' = "draw"
            /\ \E table \in AliasTables(fin) : fout' = <<table>>
    /\ UNCHANGED <<psi, prev, built, lambda, ham, iterations, iter, oplog, energy_val>>
    /\ UNCHANGED <<buildVars, fin>>

\* dist(gen)
DistributionDraw ==
    /\ pc = "draw"
    /\ \E index \in DrawOutcomes(fout[1]) : fout' = Append(fout, index)
    /\ pc' = "drawn"
    /\ UNCHANGED <<psi, prev, built, lambda, ham, iterations, iter, oplog, energy_val>>
    /\ UNCHANGED <<buildVars, fin>>

NextAlias == DistributionInit \/ DistributionDraw

SpecAlias == InitAlias /\ [][NextAlias]_vars

-----------------------------------------------------------------------------
(* SpinVector as a data type: two keys are constructed from bit sequences,     *)
(* then the first is written, flipped or copied. fin holds the bit sequences,  *)
(* fout the two keys, the number of operations applied and the last one.       *)

MaxOps == 2

Ones(n) == [i \in 1..n |-> 1]

Alternating(n) == [i \in 1..n |-> i % 2]

SpinBitSeqs ==
    UNION { [1..n -> {0, 1}] : n \in 0..2 }
    \cup { <<1, 0, 0, 1, 1, 0, 1>>,
           <<0, 0, 1, 1, 0, 0, 1, 0, 1, 0, 1, 1, 0, 1>>,
           Ones(8), Alternating(9),
           Zeros(MaxSize), Alternating(MaxSize), Ones(MaxSize - 1) }

\* The indices the operations are tried at: the ends of the key and both sides
\* of the first byte boundary.
SampleIndices(v) == {0, 1, 7, 8, v.size - 1} \cap (0..(v.size - 1))

InitSpin ==
    /\ pc = "construct_spin"
    /\ fin \in [a : SpinBitSeqs, b : SpinBitSeqs]
    /\ fout = <<>>
    /\ psi = NewQuantumState(MinSoftMax, MinSoftMax, 1, FALSE)
    /\ DriverIdle
    /\ BuildIdle

spinIdleVars ==
    <<psi, prev, built, lambda, ham, iterations, iter, oplog, energy_val, buildVars, fin>>

\* SpinVector a{begin, end}, b{begin, end}
SpinConstruct ==
    /\ pc = "construct_spin"
    /\ fout' = [a |-> MakeSpinVector(fin.a), b |-> MakeSpinVector(fin.b), ops |-> 0,
                last |-> "construct"]
    /\ pc' = "spin"
    /\ UNCHANGED spinIdleVars

\* a[i] = s
SpinWrite ==
    /\ pc = "spin"
    /\ fout.ops < MaxOps
    /\ \E i \in SampleIndices(fout.a), s \in {0, 1} :
           fout' = [fout EXCEPT !.a = SpinSet(@, i, s), !.ops = @ + 1, !.last = "write"]
    /\ UNCHANGED <<pc, spinIdleVars>>

\* a.flip(i)
SpinFlipAt ==
    /\ pc = "spin"
    /\ fout.ops < MaxOps
    /\ \E i \in SampleIndices(fout.a) :
           fout' = [fout EXCEPT !.a = SpinFlip(@, i), !.ops = @ + 1, !.last = "flip"]
    /\ UNCHANGED <<pc, spinIdleVars>>

\* a = a.flipped({i, j})
SpinFlippedAt ==
    /\ pc = "spin"
    /\ fout.ops < MaxOps
    /\ \E i \in SampleIndices(fout.a), j \in SampleIndices(fout.a) :
           fout' = [fout EXCEPT !.a = SpinFlipped(@, <<i, j>>), !.ops = @ + 1,
                                !.last = "flipped"]
    /\ UNCHANGED <<pc, spinIdleVars>>

\* b = a: the defaulted copy copies the 16 bytes.
SpinCopy ==
    /\ pc = "spin"
    /\ fout.ops < MaxOps
    /\ fout' = [fout EXCEPT !.b = fout.a, !.ops = @ + 1, !.last = "copy"]
    /\ UNCHANGED <<pc, spinIdleVars>>

NextSpin ==
    \/ SpinConstruct
    \/ SpinWrite
    \/ SpinFlipAt
    \/ SpinFlippedAt
    \/ SpinCopy

SpecSpin == InitSpin /\ [][NextSpin]_vars

-----------------------------------------------------------------------------
(* Writing a state as text and reading the text back. A text is a sequence of  *)
(* lines, a line a sequence of characters. The amplitudes written are          *)
(* multiples of 1/2, held as numerators over the squared scale 4; fractions    *)
(* other than .5 do not occur in such a text.                                  *)

Digits == <<"0", "1", "2", "3", "4", "5", "6", "7", "8", "9">>

IsDigit(c) == \E d \in 1..Len(Digits) : Digits[d] = c

DigitValue(c) == (CHOOSE d \in 1..Len(Digits) : Digits[d] = c) - 1

IsSpace(c) == c \in {" ", "\t"}

RECURSIVE FormatNat(_)
FormatNat(n) ==
    IF n < 10 THEN <<Digits[n + 1]>> ELSE FormatNat(n \div 10) \o <<Digits[(n % 10) + 1]>>

\* out << d for the double d = h / 2, in the default format.
FormatDouble(h) ==
    LET m == IF h < 0 THEN -h ELSE h
    IN (IF h < 0 THEN <<"-">> ELSE <<>>)
       \o FormatNat(m \div 2)
       \o (IF m % 2 = 1 THEN <<".", "5">> ELSE <<>>)

\* operator<<(std::ostream&, SpinVector const&): one character per spin.
WriteSpin(k) == [i \in 1..k.size |-> Digits[SpinGet(k, i - 1) + 1]]

\* out << x.first << '\t' << x.second.real() << '\t' << x.second.imag() << '\n'
WriteLine(entry) ==
    WriteSpin(entry[1]) \o <<"\t">> \o FormatDouble(entry[2][1])
    \o <<"\t">> \o FormatDouble(entry[2][2])

\* operator<<(std::ostream&, QuantumState const&): one line per entry, in the
\* order of for_each.
WriteState(s) == LET xs == ForEach(s) IN [n \in 1..Len(xs) |-> WriteLine(xs[n])]

Drop(cs, n) == SubSeq(cs, n + 1, Len(cs))

\* The length of the longest prefix of cs whose characters all satisfy Test.
PrefixLength(cs, Test(_)) ==
    LET stops == { i \in 1..Len(cs) : ~Test(cs[i]) }
    IN IF stops = {} THEN Len(cs) ELSE (CHOOSE i \in stops : \A j \in stops : i <= j) - 1

\* while (std::isspace(in.peek())) in.get();
SkipSpace(cs) == Drop(cs, PrefixLength(cs, IsSpace))

\* The length of the run of digits cs starts with.
DigitRun(cs) == PrefixLength(cs, IsDigit)

RECURSIVE NatOf(_)
NatOf(ds) == IF ds = <<>> THEN 0 ELSE 10 * NatOf(SubSeq(ds, 1, Len(ds) - 1)) + DigitValue(ds[Len(ds)])

\* stream >> double: spaces, a sign, digits, a point and digits; no digit at all
\* is a failure. The value is returned in halves.
ParseDouble(cs) ==
    LET cs1 == SkipSpace(cs)
        neg == cs1 /= <<>> /\ Head(cs1) = "-"
        cs2 == IF neg THEN Tail(cs1) ELSE cs1
        ni == DigitRun(cs2)
        cs3 == Drop(cs2, ni)
        point == cs3 /= <<>> /\ Head(cs3) = "."
        nf == IF point THEN DigitRun(Tail(cs3)) ELSE 0
        frac == IF point THEN SubSeq(cs3, 2, nf + 1) ELSE <<>>
        halves == 2 * NatOf(SubSeq(cs2, 1, ni)) + (IF frac = <<"5">> THEN 1 ELSE 0)
    IN [ok |-> ni + nf > 0,
        value |-> IF neg THEN -halves ELSE halves,
        rest |-> IF point THEN Drop(cs3, nf + 1) ELSE cs3]

\* What line_stream >> spin >> real >> imag extracts from a line: the spin takes
\* the first run of digits after the leading spaces, whatever follows it.
Tokenise(line) ==
    IF line = <<>> THEN [kind |-> "empty", bits |-> <<>>, nums |-> <<>>]
    ELSE IF Head(line) = "#" THEN [kind |-> "comment", bits |-> <<>>, nums |-> <<>>]
    ELSE LET cs == SkipSpace(line)
             n == DigitRun(cs)
             real == ParseDouble(Drop(cs, n))
             imag == ParseDouble(real.rest)
         IN EntryLine([i \in 1..n |-> DigitValue(cs[i])],
                      IF ~real.ok THEN <<>>
                      ELSE IF ~imag.ok THEN <<real.value>>
                      ELSE <<real.value, imag.value>>)

TextKeys ==
    { MakeSpinVector(b) : b \in { <<>>, <<0>>, <<1>>, <<0, 1>>, Alternating(MaxSize) } }

TextAmps == { <<2, 0>>, <<1, -2>>, <<-1, 1>>, <<0, -3>> }

TextInputs ==
    UNION { [D -> TextAmps] : D \in { E \in SUBSET TextKeys : Cardinality(E) <= MaxEntries } }

InitText ==
    /\ pc = "write"
    /\ \E n \in BuildWorkerCounts, f \in TextInputs :
           psi = ReadState([NewQuantumState(MinSoftMax, 2 * MinSoftMax, n, FALSE)
                               EXCEPT !.den = 4], f)
    /\ prev = psi
    /\ built = psi
    /\ lambda = 0
    /\ ham = <<>>
    /\ iterations = 0
    /\ iter = 0
    /\ oplog = <<>>
    /\ energy_val = <<>>
    /\ BuildIdle
    /\ FunIdle

\* out << state
WriteText ==
    /\ pc = "write"
    /\ fout' = <<WriteState(psi)>>
    /\ pc' = "reread"
    /\ UNCHANGED <<psi, prev, built, lambda, ham, iterations, iter, oplog, energy_val>>
    /\ UNCHANGED <<buildVars, fin>>

\* in >> state, on the text written.
ReadText ==
    /\ pc = "reread"
    /\ \E r \in ReadStream(psi, [n \in 1..Len(fout[1]) |-> Tokenise(fout[1][n])]) :
           /\ psi' = r.state
           /\ fout' = Append(fout, r.kind)
    /\ pc' = "reread_done"
    /\ UNCHANGED <<prev, built, lambda, ham, iterations, iter, oplog, energy_val>>
    /\ UNCHANGED <<buildVars, fin>>

NextText == WriteText \/ ReadText

SpecText == InitText /\ [][NextText]_vars

-----------------------------------------------------------------------------
(* read_hamiltonian: the lines of the file, one per step. fin is the text,     *)
(* each line with the newline getline leaves at its end; ham is the vector     *)
(* specs as it grows, a coupling held in halves; fout has one entry for every  *)
(* line consumed.                                                              *)

MaxHamLines == 2

\* std::isspace in the "C" locale, on the characters of the texts.
IsSpaceChar(c) == c \in { " ", "\t", "\n" }

\* skip_spaces
SkipSpaces(cs) == Drop(cs, PrefixLength(cs, IsSpaceChar))

\* parse_char: throws at the end of the input and on any other character.
ParseChar(c, cs) ==
    IF cs = <<>> \/ Head(cs) /= c THEN [ok |-> FALSE, rest |-> cs]
    ELSE [ok |-> TRUE, rest |-> Tail(cs)]

\* The digits ds without their leading zeros.
Significant(ds) == Drop(ds, PrefixLength(ds, LAMBDA c : c = "0"))

\* std::from_chars reports result_out_of_range: the digits ds, after a minus
\* sign if neg, do not fit an int of 32 bits.
IntOutOfRange(neg, ds) ==
    LET sig == Significant(ds)
    IN \/ Len(sig) > 10
       \/ /\ Len(sig) = 10
          /\ LET high == NatOf(SubSeq(sig, 1, 9))
                 low == DigitValue(sig[10])
             IN \/ high > 214748364
                \/ high = 214748364 /\ low > (IF neg THEN 8 ELSE 7)

\* The int the digits sig, without leading zeros and in range, stand for.
IntOf(neg, sig) ==
    IF neg /\ Len(sig) = 10 /\ NatOf(SubSeq(sig, 1, 9)) = 214748364 /\ DigitValue(sig[10]) = 8
    THEN -2147483647 - 1
    ELSE IF neg THEN -NatOf(sig) ELSE NatOf(sig)

NoInt == [ok |-> FALSE, value |-> 0, rest |-> <<>>]

\* std::from_chars on cs2, the text after the sign, which starts with n digits.
FromCharsDigits(neg, cs2, n) ==
    IF n = 0 \/ IntOutOfRange(neg, SubSeq(cs2, 1, n)) THEN NoInt
    ELSE [ok |-> TRUE, value |-> IntOf(neg, Significant(SubSeq(cs2, 1, n))), rest |-> Drop(cs2, n)]

FromCharsSigned(neg, cs2) == FromCharsDigits(neg, cs2, DigitRun(cs2))

\* std::from_chars for int: an optional minus sign and digits.
FromChars(cs1) ==
    IF cs1 /= <<>> /\ Head(cs1) = "-" THEN FromCharsSigned(TRUE, Tail(cs1))
    ELSE FromCharsSigned(FALSE, cs1)

\* parse_int: skip_spaces, then std::from_chars; throws when there is no digit
\* and when the value does not fit.
ParseInt(cs) == FromChars(SkipSpaces(cs))

NoEdge == [ok |-> FALSE, edge |-> <<>>, rest |-> <<>>]

\* parse_edge from the closing parenthesis on.
EdgeClose(i, j, close) ==
    IF close.ok THEN [ok |-> TRUE, edge |-> <<i, j>>, rest |-> close.rest] ELSE NoEdge

EdgeSecond(i, second) ==
    IF second.ok THEN EdgeClose(i, second.value, ParseChar(")", SkipSpaces(second.rest)))
    ELSE NoEdge

EdgeComma(i, comma) == IF comma.ok THEN EdgeSecond(i, ParseInt(comma.rest)) ELSE NoEdge

EdgeFirst(first) ==
    IF first.ok THEN EdgeComma(first.value, ParseChar(",", SkipSpaces(first.rest))) ELSE NoEdge

EdgeOpen(open) == IF open.ok THEN EdgeFirst(ParseInt(open.rest)) ELSE NoEdge

\* parse_edge: '(' int ',' int ')', spaces allowed before each of them; the
\* first statement that throws ends it.
ParseEdge(cs) == EdgeOpen(ParseChar("(", SkipSpaces(cs)))

NoList == [ok |-> FALSE, edges |-> <<>>, rest |-> <<>>]

RECURSIVE ParseMoreEdges(_, _)

\* edges.push_back(edge) after parse_edge has returned e.
PushBackEdge(e, edges) ==
    IF e.ok THEN ParseMoreEdges(e.rest, Append(edges, e.edge)) ELSE NoList

\* One round of the do-while on the text cs1, spaces skipped.
MoreEdgesAt(cs1, edges) ==
    IF cs1 = <<>> THEN NoList
    ELSE IF Head(cs1) = "]" THEN [ok |-> TRUE, edges |-> edges, rest |-> Tail(cs1)]
    ELSE IF Head(cs1) = "," THEN PushBackEdge(ParseEdge(Tail(cs1)), edges)
    ELSE NoList

\* The do-while of parse_adjacency_list, entered with the edges parsed so far.
ParseMoreEdges(cs, edges) == MoreEdgesAt(SkipSpaces(cs), edges)

\* parse_adjacency_list on the text cs1 after '[', spaces skipped.
FirstEdgeAt(cs1) ==
    IF cs1 = <<>> THEN NoList
    ELSE IF Head(cs1) = "]" THEN [ok |-> TRUE, edges |-> <<>>, rest |-> Tail(cs1)]
    ELSE PushBackEdge(ParseEdge(cs1), <<>>)

ListOpen(open) == IF open.ok THEN FirstEdgeAt(SkipSpaces(open.rest)) ELSE NoList

\* parse_adjacency_list: '[' then ']' or edges separated by commas and ']'.
ParseAdjacencyList(cs) == ListOpen(ParseChar("[", SkipSpaces(cs)))

\* specs.emplace_back(coupling, edges) once both parsers have returned.
TermOfList(value, list) ==
    IF list.ok THEN << [coupling |-> <<value, 0>>, edges |-> list.edges] >> ELSE <<>>

TermOfCoupling(coupling) ==
    IF coupling.ok THEN TermOfList(coupling.value, ParseAdjacencyList(coupling.rest)) ELSE <<>>

\* The terms ts if every edge index in them is in 0..111, none otherwise.
TermsInRange(ts) ==
    IF \A t \in 1..Len(ts) : \A n \in 1..Len(ts[t].edges) : \A m \in 1..2 :
           ts[t].edges[n][m] >= 0 /\ ts[t].edges[n][m] < 8 * SpinBytes
    THEN ts ELSE <<>>

\* The callback with the range check of the data model put where the term
\* is stored: a line with an edge index outside 0..111 throws.
HamTermChecked(line) == TermsInRange(TermOfCoupling(ParseDouble(line)))

\* The callback of for_each_line on a line that is neither empty nor a
\* comment: the term it appends to specs, none when a parser throws.
HamTerm(line) == TermOfCoupling(ParseDouble(line))

HamIndexTexts == { <<"0">>, <<"1", "1", "1">>, <<"1", "1", "2">>, <<"-", "1">> }

HamEdgeTexts ==
    { <<"(">> \o i \o <<",", " ">> \o j \o <<")">> : i \in HamIndexTexts, j \in HamIndexTexts }

HamLines ==
    { <<"1", " ", "[", "]", "\n">>,
      <<"#", " ", "[", "(", "0", ",", "1", ")", "]", "\n">>,
      <<"\n">>,
      <<"1", " ", "[", "(", "0", ",", "1", ")", "\n">>,
      <<"1", " ", "[", "(", "0", ",", ")", "]", "\n">>,
      <<"[", "(", "0", ",", "1", ")", "]", "\n">>,
      <<"2", " ", "[", "(", "0", ",", "2", "1", "4", "7", "4", "8", "3", "6", "4", "8", ")", "]", "\n">> }
    \cup { <<"-", "0", ".", "5", " ", "[">> \o e \o <<"]", "\n">> : e \in HamEdgeTexts }
    \cup { <<"1", "\t", "[", " ", "(", "0", ",", "1", ")", " ", ",", "(">> \o i \o <<",">> \o i
               \o <<")", " ", "]">> : i \in HamIndexTexts }

HamTexts == UNION { [1..n -> HamLines] : n \in 0..MaxHamLines }

InitHam ==
    /\ pc = "read_hamiltonian"
    /\ fin \in HamTexts
    /\ fout = <<>>
    /\ psi = NewQuantumState(MinSoftMax, MinSoftMax, 1, FALSE)
    /\ DriverIdle
    /\ BuildIdle

hamIdleVars == <<psi, prev, built, lambda, iterations, iter, oplog, energy_val, buildVars, fin>>

\* The callback on a line that is parsed: term is what it appends, if anything.
HamStore(term) ==
    IF term = <<>>
    THEN /\ fout' = Append(fout, "thrown")
         /\ pc' = "error"
         /\ UNCHANGED ham
    ELSE /\ fout' = Append(fout, "term")
         /\ ham' = ham \o term
         /\ UNCHANGED pc

\* The callback on the line.
HamCallback(line) ==
    IF line = <<>> \/ Head(line) = "#"
    THEN /\ fout' = Append(fout, "skipped")
         /\ UNCHANGED <<pc, ham>>
    ELSE HamStore(HamTerm(line))

\* One call of the callback of for_each_line.
HamReadLine ==
    /\ pc = "read_hamiltonian"
    /\ Len(fout) < Len(fin)
    /\ HamCallback(fin[Len(fout) + 1])
    /\ UNCHANGED hamIdleVars

\* getline returns -1: return Heisenberg{std::move(specs)}.
HamReadEnd ==
    /\ pc = "read_hamiltonian"
    /\ Len(fout) = Len(fin)
    /\ pc' = "hamiltonian_read"
    /\ UNCHANGED <<ham, fout>>
    /\ UNCHANGED hamIdleVars

NextHam == HamReadLine \/ HamReadEnd

SpecHam == InitHam /\ [][NextHam]_vars

-----------------------------------------------------------------------------
(* Reference definitions the properties are stated with *)

Min2(a, b) == IF a <= b THEN a ELSE b

K01 == MakeSpinVector(<<0, 1>>)

K10 == MakeSpinVector(<<1, 0>>)

\* The bits of a key, read back one by one.
BitsOf(k) == [n \in 1..k.size |-> SpinGet(k, n - 1)]

\* The key whose bits are those of k with the bits at the indices in `at` inverted.
WithBitsInverted(k, at) ==
    MakeSpinVector([n \in 1..k.size |-> IF (n - 1) \in at THEN 1 - BitsOf(k)[n] ELSE BitsOf(k)[n]])

\* The sum of the values v of a finite set of pairs <<tag, v>>.
RECURSIVE CSumTagged(_)
CSumTagged(S) ==
    IF S = {} THEN CZero
    ELSE CHOOSE r \in { CAdd(x[2], CSumTagged(S \ {x})) : x \in { CHOOSE y \in S : TRUE } } : TRUE

\* <k| H |sigma> for one edge with coupling J: the matrix element of the
\* Heisenberg interaction in the convention of the program.
EdgeElement(J, edge, sigma, k) ==
    IF SpinGet(sigma, edge[1]) = SpinGet(sigma, edge[2])
    THEN (IF k = sigma THEN J ELSE CZero)
    ELSE CAdd(IF k = sigma THEN CNeg(J) ELSE CZero,
              IF k = WithBitsInverted(sigma, {edge[1], edge[2]}) THEN CScale(2, J) ELSE CZero)

MatrixElement(specs, sigma, k) ==
    CSumTagged({ <<te, EdgeElement(specs[te[1]].coupling, specs[te[1]].edges[te[2]], sigma, k)>> :
                 te \in UNION { {t} \X (1..Len(specs[t].edges)) : t \in 1..Len(specs) } })

\* (H s)[k], numerators: the sum over the keys sigma of s of <k|H|sigma> s[sigma].
HPsiAt(specs, s, k) ==
    CSumTagged({ <<sigma, CMul(MatrixElement(specs, sigma, k), Amp(s, sigma))>> :
                 sigma \in StateKeys(s) })

\* <s|H|s>, numerators.
ExpectationValue(specs, s) ==
    CSumTagged({ <<sigma, CMul(<<Amp(s, sigma)[1], -Amp(s, sigma)[2]>>, HPsiAt(specs, s, sigma))>> :
                 sigma \in StateKeys(s) })

RECURSIVE Repeat(_, _)
Repeat(s, n) == IF n = 0 THEN <<>> ELSE s \o Repeat(s, n - 1)

IterationOps == <<"trotter_step", "shrink", "normalize">>

-----------------------------------------------------------------------------
(* Properties of the driver, checked under Spec *)

\* C2: every stored key sits in the map with index byte[0] >> (8 - log2 N), which
\* is in [0, N), and in no other map; routing (Builder, find) and insert / erase
\* use the same index.
C2_ShardPlacement ==
    LET n == NumberWorkers(psi)
    IN /\ \A i \in 1..n : \A k \in DOMAIN psi.maps[i] :
              /\ i - 1 = SpinData0(k) \div (256 \div n)
              /\ \A j \in 1..n : k \in DOMAIN psi.maps[j] => j = i
       /\ \A k \in Keys :
              /\ SpinToIndex(k, n) \in 0..(n - 1)
              /\ SpinToIndex(k, n) = SpinToIndex1(k, n)
              /\ (n = 1 => SpinToIndex(k, n) = 0)
              /\ (n = 8 => SpinToIndex(k, n) = SpinData0(k) \div 32)

\* C2 witness: eight shards, after a build and a truncation, two keys in two
\* different maps.
C2_Witness ==
    /\ pc = "done"
    /\ NumberWorkers(psi) = 8
    /\ iter = MaxIter
    /\ \E i, j \in 1..NumberWorkers(psi) :
           i /= j /\ DOMAIN psi.maps[i] /= {} /\ DOMAIN psi.maps[j] /= {}
    /\ StateSize(built) > StateSize(psi)

\* C3: deterministic shrink() leaves min(m, S) entries; for m > S it removes
\* exactly m - S entries, none of them larger in |amplitude|^2 than a retained
\* one, and retained entries keep their amplitudes; for m <= S nothing changes.
C3_DeterministicTruncation ==
    (pc = "normalize" /\ ~psi.random) =>
        LET m == StateSize(built)
            removed == StateKeys(built) \ StateKeys(psi)
        IN /\ StateSize(psi) = Min2(m, psi.soft_max)
           /\ StateKeys(psi) \subseteq StateKeys(built)
           /\ (m > psi.soft_max => Cardinality(removed) = m - psi.soft_max)
           /\ \A r \in removed : \A k \in StateKeys(psi) :
                  CNorm(Amp(built, r)) <= CNorm(Amp(built, k))
           /\ \A k \in StateKeys(psi) : Amp(psi, k) = Amp(built, k)
           /\ (m <= psi.soft_max => psi = built)

\* C3 witness: a deterministic shrink of a state above the soft cap removed an
\* entry strictly smaller than a retained one.
C3_Witness ==
    /\ pc = "normalize"
    /\ ~psi.random
    /\ StateSize(built) > psi.soft_max
    /\ StateSize(psi) = psi.soft_max
    /\ \E r \in StateKeys(built) \ StateKeys(psi) : \E k \in StateKeys(psi) :
           CNorm(Amp(built, r)) < CNorm(Amp(built, k))

\* C4: after every iteration of diffusion_loop the state has at most soft cap
\* entries, under either truncation policy.
C4_BoundedWorkingSet ==
    (pc \in {"loop_test", "energy1", "done"} \/ (pc = "trotter" /\ iter >= 1)) =>
        StateSize(psi) <= psi.soft_max

\* C4 witness: an iteration whose build exceeded the soft cap has completed.
C4_Witness ==
    /\ pc = "loop_test"
    /\ iter = MaxIter
    /\ StateSize(built) > psi.soft_max
    /\ StateSize(psi) = psi.soft_max

\* C6: a diffusion_loop that returns has performed exactly n >= 1 iterations,
\* each trotter_step, shrink, normalize in that order; at every moment the
\* operations performed so far are a prefix of that sequence.
C6_LoopOrder ==
    /\ Len(oplog) <= 3 * iterations
    /\ oplog = SubSeq(Repeat(IterationOps, iterations), 1, Len(oplog))
    /\ (pc \in {"energy1", "done"} =>
            /\ iterations >= 1
            /\ oplog = Repeat(IterationOps, iterations))

\* C6 witness: a loop of MaxIter iterations has returned.
C6_Witness ==
    /\ pc = "energy1"
    /\ iterations = MaxIter
    /\ iter = MaxIter

C9_EnergyValue ==
    /\ (pc = "loop_enter" =>
            /\ energy_val[1] = [num |-> ExpectationValue(ham, psi), den |-> psi.den]
            /\ (ham = HamZero => energy_val[1].num = CZero))
    /\ (pc = "done" =>
            /\ energy_val[2] = [num |-> ExpectationValue(ham, psi), den |-> psi.den]
            /\ (ham = HamZero => energy_val[2].num = CZero))

\* C9 witness: an energy with a non-zero imaginary part, of a state with a
\* non-real amplitude.
C9_Witness ==
    /\ pc = "loop_enter"
    /\ energy_val[1].num[2] /= 0
    /\ \E k \in StateKeys(psi) : Amp(psi, k)[2] /= 0

\* The scenario of C10: H = (1.0, [(0,1)]), psi0 = {"01": 1, "10": 1}, Lambda = 0,
\* one iteration done.
TwoSiteScenario ==
    /\ pc = "loop_test"
    /\ iter = 1
    /\ ham = HamPair
    /\ lambda = 0
    /\ StateKeys(prev) = {K01, K10}
    /\ Amp(prev, K01) = <<1, 0>>
    /\ Amp(prev, K10) = <<1, 0>>
    /\ prev.den = 1

\* C10 as stated: after one iteration the amplitudes on "01" and "10" are
\* equal in magnitude and opposite in sign.
C10_OppositeSigns ==
    TwoSiteScenario =>
        /\ {K01, K10} \subseteq StateKeys(psi)
        /\ Amp(psi, K01) = CNeg(Amp(psi, K10))
        /\ Amp(psi, K01) /= CZero

\* C10 amended: with deterministic truncation the two amplitudes are equal,
\* both -1/sqrt(2): the input is an eigenstate of H with eigenvalue +1 and the
\* step returns minus the input.
C10_EqualAmplitudes ==
    (TwoSiteScenario /\ ~psi.random) =>
        /\ StateKeys(psi) = {K01, K10}
        /\ Amp(psi, K01) = <<-1, 0>>
        /\ Amp(psi, K10) = <<-1, 0>>
        /\ psi.den = 2

\* C10 witness: the scenario with deterministic truncation.
C10_Witness ==
    /\ TwoSiteScenario
    /\ ~psi.random
    /\ StateSize(psi) = 2

\* The scenario of C11: the program has run to its end with one iteration on
\* H = (1.0, [(0,1)]), psi0 = {"01": 1, "10": 1} and Lambda = 0.
TwoSiteRunDone ==
    /\ pc = "done"
    /\ iterations = 1
    /\ ham = HamPair
    /\ lambda = 0
    /\ StateKeys(prev) = {K01, K10}
    /\ Amp(prev, K01) = <<1, 0>>
    /\ Amp(prev, K10) = <<1, 0>>
    /\ prev.den = 1

\* C11 as stated: the energy of the normalised state after one iteration is -3.
C11_EnergyMinusThree ==
    TwoSiteRunDone =>
        /\ energy_val[2].den > 0
        /\ energy_val[2].num = <<-3 * energy_val[2].den, 0>>

\* C11 amended: with deterministic truncation the energy of the normalised
\* state after one iteration is +1 (numerator 2 over squared scale 2), the
\* triplet energy; the energy of the un-normalised input is 2.
C11_EnergyPlusOne ==
    (TwoSiteRunDone /\ ~psi.random) =>
        /\ energy_val[2] = [num |-> <<2, 0>>, den |-> 2]
        /\ energy_val[1] = [num |-> <<2, 0>>, den |-> 1]

\* C11 witness: the scenario has run to its end with deterministic truncation.
C11_Witness ==
    /\ TwoSiteRunDone
    /\ ~psi.random
    /\ Len(energy_val) = 2
    /\ psi.den = 2

\* a / sqrt(a.den) and b / sqrt(b.den) are the same state.
NormalisedEqual(a, b) ==
    /\ StateKeys(a) = StateKeys(b)
    /\ \A k \in StateKeys(a) : \A c \in 1..2 :
           /\ (Amp(a, k)[c] > 0) = (Amp(b, k)[c] > 0)
           /\ (Amp(a, k)[c] < 0) = (Amp(b, k)[c] < 0)
           /\ Amp(a, k)[c] * Amp(a, k)[c] * b.den = Amp(b, k)[c] * Amp(b, k)[c] * a.den

\* C12: with a Hamiltonian without terms, deterministic truncation and an
\* input of at most soft cap entries, an iteration keeps the key set and
\* multiplies every amplitude by Lambda before normalisation; for Lambda > 0
\* the normalised output of the iteration is the normalised input.
C12_ZeroTermScaling ==
    (/\ ham = HamZero
     /\ ~psi.random
     /\ StateSize(prev) <= prev.soft_max
     /\ pc \in {"shrink", "normalize", "loop_test", "energy1", "done"}) =>
        /\ StateKeys(psi) = StateKeys(prev)
        /\ \A k \in StateKeys(prev) : Amp(psi, k) = CScale(lambda, Amp(prev, k))
        /\ (pc \in {"shrink", "normalize"} => psi.den = prev.den)
        /\ (pc \in {"loop_test", "energy1", "done"} =>
               /\ psi.den = lambda * lambda * StateNorm(prev)
               /\ (lambda > 0 => NormalisedEqual(psi, NormalizeOp(prev))))

\* C12 witness: MaxIter iterations with no terms and Lambda > 0 on a state with
\* a non-real amplitude have been completed.
C12_Witness ==
    /\ pc = "energy1"
    /\ ham = HamZero
    /\ ~psi.random
    /\ lambda > 0
    /\ iter = MaxIter
    /\ StateSize(prev) = prev.soft_max
    /\ \E k \in StateKeys(psi) : Amp(psi, k)[2] /= 0

\* C14: diffusion_loop with n = 0 fails without a trotter_step, a shrink or a
\* normalize, and leaves the state as it was read.
C14_ZeroIterationsRejected ==
    iterations = 0 =>
        /\ pc \in {"energy0", "loop_enter", "error"}
        /\ oplog = <<>>
        /\ iter = 0
        /\ psi = built
        /\ psi = prev
        /\ psi.den = 1

\* C14 witness: diffusion_loop has failed for n = 0 on a non-empty state.
C14_Witness ==
    /\ pc = "error"
    /\ iterations = 0
    /\ StateSize(psi) > 0

\* C20: stochastic shrink fails exactly when all truncation weights are zero
\* (the empty state included); deterministic shrink never fails.
C20_ZeroWeightError ==
    /\ (pc = "normalize" /\ psi.random) =>
           \E k \in StateKeys(built) : CNorm(Amp(built, k)) /= 0
    /\ (pc = "error" /\ oplog /= <<>>) =>
           /\ psi.random
           /\ oplog[Len(oplog)] = "shrink"
           /\ \A k \in StateKeys(built) : CNorm(Amp(built, k)) = 0
    /\ (pc = "error" /\ ~psi.random) => (iterations = 0 /\ oplog = <<>>)

\* C20 witness: stochastic shrink has failed on a non-empty state whose
\* amplitudes are all zero.
C20_Witness ==
    /\ pc = "error"
    /\ psi.random
    /\ oplog /= <<>>
    /\ StateSize(built) > 0

\* The sum of |numerator|^2 over the keys of s, wherever they are stored.
TotalWeight(s) ==
    LET ks == SetToSeq(StateKeys(s))
    IN SumSeq([n \in 1..Len(ks) |-> CNorm(Amp(s, ks[n]))])

\* C26: at the end of every iteration of diffusion_loop (after normalize) a
\* state that is non-empty with non-zero norm after truncation has unit norm:
\* the sum over all shards of |amplitude|^2, i.e. of |numerator|^2 over the
\* squared scale, is 1.
C26_UnitNorm ==
    ((pc \in {"loop_test", "energy1", "done"} \/ (pc = "trotter" /\ iter >= 1))
     /\ TotalWeight(psi) /= 0) =>
        /\ StateSize(psi) > 0
        /\ psi.den > 0
        /\ TotalWeight(psi) = psi.den

\* C26 witness: MaxIter iterations done on eight shards, two entries in
\* different shards, a squared scale other than 1.
C26_Witness ==
    /\ pc = "loop_test"
    /\ iter = MaxIter
    /\ NumberWorkers(psi) = 8
    /\ StateSize(psi) = 2
    /\ DOMAIN psi.maps[1] /= {}
    /\ psi.den > 1
    /\ TotalWeight(psi) = psi.den

-----------------------------------------------------------------------------
(* Properties of a build, checked under SpecBuild *)

\* The number of updates for key k that are pushed but not yet processed.
Queued(k) ==
    SumSeq([i \in 1..Len(queue) |->
               Cardinality({ n \in 1..Len(queue[i]) : queue[i][n][1] = k })])

\* C1: when Builder.stop() has returned, every key that was added is mapped, in
\* its shard, to the sum of all the deltas added for it, and no other key is
\* stored: no update is lost or applied twice, whatever the interleaving.
C1_NoLostUpdate ==
    pc = "stopped" =>
        /\ \A k \in BuildKeys :
               IF nadds[k] > 0
               THEN /\ k \in StateKeys(psi)
                    /\ Amp(psi, k) = total[k]
                    /\ k \in DOMAIN psi.maps[(SpinData0(k) \div (256 \div Len(psi.maps))) + 1]
               ELSE k \notin StateKeys(psi)
        /\ StateKeys(psi) \subseteq BuildKeys
        /\ \A i \in 1..Len(queue) : queue[i] = <<>>

\* C1 witness: a build over two shards has stopped after MaxAdds adds, one key
\* added twice, both shards holding a key.
C1_Witness ==
    /\ pc = "stopped"
    /\ Len(psi.maps) = 2
    /\ AddsIssued = MaxAdds
    /\ \E k \in BuildKeys : nadds[k] >= 2
    /\ \A i \in 1..Len(psi.maps) : DOMAIN psi.maps[i] /= {}

-----------------------------------------------------------------------------
(* Properties of the Heisenberg operator, checked under SpecHeisenberg *)

\* What one edge must emit for key sigma and coefficient c.
EdgeRule(J, edge, sigma, c) ==
    IF BitsOf(sigma)[edge[1] + 1] = BitsOf(sigma)[edge[2] + 1]
    THEN << <<CMul(c, J), sigma>> >>
    ELSE << <<CNeg(CMul(c, J)), sigma>>,
            <<CScale(2, CMul(c, J)), WithBitsInverted(sigma, {edge[1], edge[2]})>> >>

RECURSIVE EdgesRule(_, _, _, _)
EdgesRule(J, edges, sigma, c) ==
    IF edges = <<>> THEN <<>>
    ELSE EdgeRule(J, Head(edges), sigma, c) \o EdgesRule(J, Tail(edges), sigma, c)

RECURSIVE EmissionRule(_, _, _)
EmissionRule(specs, sigma, c) ==
    IF specs = <<>> THEN <<>>
    ELSE EdgesRule(Head(specs).coupling, Head(specs).edges, sigma, c)
         \o EmissionRule(Tail(specs), sigma, c)

\* C8: H(sigma, c, B) emits, term by term and edge by edge, (c J, sigma) for an
\* aligned edge and (-c J, sigma), (2 c J, sigma with bits i and j flipped)
\* otherwise, and nothing else; a second call emits the same; every emitted key
\* has the length of sigma and differs from it in no bit or in exactly the two
\* bits of an edge.
C8_HeisenbergEmission ==
    \A n \in 1..Len(fout) :
        /\ fout[n] = EmissionRule(fin.specs, fin.spin, fin.coeff)
        /\ \A u \in 1..Len(fout[n]) :
               LET key == fout[n][u][2]
                   differ == { b \in 1..fin.spin.size : BitsOf(key)[b] /= BitsOf(fin.spin)[b] }
               IN /\ key.size = fin.spin.size
                  /\ key = MakeSpinVector(BitsOf(key))
                  /\ \/ differ = {}
                     \/ /\ Cardinality(differ) = 2
                        /\ \E t \in 1..Len(fin.specs) : \E e \in 1..Len(fin.specs[t].edges) :
                               differ = { fin.specs[t].edges[e][1] + 1, fin.specs[t].edges[e][2] + 1 }

\* C8 witness: both calls made, on a three-spin key and the ring Hamiltonian,
\* with an aligned and an anti-aligned edge.
C8_Witness ==
    /\ Len(fout) = 2
    /\ fin.specs = HamRing
    /\ Len(fout[1]) = 5
    /\ fin.coeff[2] /= 0

-----------------------------------------------------------------------------
(* Properties of energy(), checked under SpecEnergy *)

RealState(s) == \A k \in StateKeys(s) : Amp(s, k)[2] = 0

RealCouplings(specs) == \A t \in 1..Len(specs) : specs[t].coupling[2] = 0

\* C13 as stated: for any term list and any state with real amplitudes the
\* energy has no imaginary part.
C13_RealEnergy ==
    \A n \in 1..Len(fout) :
        RealState(fin.state) => fout[n].num[2] = 0

\* C13 amended: for any term list whose couplings are all real and any state
\* with real amplitudes the energy has no imaginary part.
C13_RealEnergyRealCouplings ==
    \A n \in 1..Len(fout) :
        (RealState(fin.state) /\ RealCouplings(fin.specs)) =>
            /\ fout[n].num[2] = 0
            /\ fout[n].num = ExpectationValue(fin.specs, fin.state)

\* C13 witness: a non-zero energy of a real two-entry state under the ring
\* Hamiltonian, with an off-diagonal contribution.
C13_Witness ==
    /\ Len(fout) = 2
    /\ fin.specs = HamRing
    /\ RealState(fin.state)
    /\ StateSize(fin.state) = 2
    /\ fout[1].num[1] /= 0
    /\ \E a \in StateKeys(fin.state), b \in StateKeys(fin.state) :
           a /= b /\ MatrixElement(fin.specs, a, b) /= CZero

-----------------------------------------------------------------------------
(* Properties of reading a state, checked under SpecParse *)

EntryLines(text) == { n \in 1..Len(text) : text[n].kind = "entry" }

HasDuplicate(text) ==
    \E i \in EntryLines(text), j \in EntryLines(text) : i < j /\ text[i].bits = text[j].bits

OverLong(text) == \E n \in EntryLines(text) : Len(text[n].bits) > MaxSize

IsEntry(line) == line.kind = "entry"

\* C18: a read of a text in which a bitstring appears on two entry lines never
\* succeeds, and fails with an error; a successful read stores one entry per
\* entry line, with the amplitude of that line; empty and comment lines change
\* nothing.
C18_DuplicateKeysRejected ==
    pc /= "read" =>
        /\ (HasDuplicate(fin.text) => fout[1].kind /= "ok")
        /\ ((HasDuplicate(fin.text) /\ ~OverLong(fin.text)) => fout[1].kind = "error")
        /\ (fout[1].kind = "ok" =>
               /\ StateSize(psi) = Cardinality(EntryLines(fin.text))
               /\ \A n \in EntryLines(fin.text) :
                      /\ MakeSpinVector(fin.text[n].bits) \in StateKeys(psi)
                      /\ Amp(psi, MakeSpinVector(fin.text[n].bits))
                             = <<fin.text[n].nums[1], fin.text[n].nums[2]>>)
        /\ ReadStream(NewQuantumState(MinSoftMax, 2 * MinSoftMax, fin.workers, FALSE), fin.text)
               = ReadStream(NewQuantumState(MinSoftMax, 2 * MinSoftMax, fin.workers, FALSE),
                            SelectSeq(fin.text, IsEntry))

\* C18 witness: a text of MaxLines lines, a comment and the same bitstring with
\* two different amplitudes, has been rejected.
C18_Witness ==
    /\ pc = "parsed"
    /\ Len(fin.text) = MaxLines
    /\ \E n \in 1..Len(fin.text) : fin.text[n].kind = "comment"
    /\ \E i \in EntryLines(fin.text), j \in EntryLines(fin.text) :
           /\ i < j
           /\ fin.text[i].bits = fin.text[j].bits
           /\ fin.text[i].nums /= fin.text[j].nums
    /\ fout[1].kind = "error"

\* C19 as stated: a bitstring of more than 112 characters makes the read, and
\* strtospin, fail with a parse error.
C19_LongBitstringParseError ==
    /\ (pc /= "read" /\ OverLong(fin.text)) => fout[1].kind = "error"
    /\ (pc = "parsed" /\ Len(FirstToken(fin.text)) > MaxSize) => fout[2].kind = "error"

-----------------------------------------------------------------------------
(* Properties of the constructor, checked under SpecConstruct *)

\* C16: the constructor fails for soft_max 0 and 1, leaving no state, and
\* accepts every soft_max >= 2, whatever the other arguments.
C16_SoftCapAtLeastTwo ==
    /\ (pc = "error" => (fin.soft_max < 2 /\ fout = <<"invalid_argument">>))
    /\ (pc = "constructed" =>
            /\ fin.soft_max >= 2
            /\ fout = <<"state">>
            /\ psi.soft_max = fin.soft_max
            /\ psi.hard_max = fin.hard_max
            /\ psi.random = fin.random)
    /\ (pc = "construct" => (ENABLED ConstructRejected <=> fin.soft_max < 2))
    /\ (pc = "construct" => (ENABLED ConstructAccepted <=> fin.soft_max >= 2))

\* C16 witness: the constructor has rejected soft_max = 1.
C16_Witness ==
    /\ pc = "error"
    /\ fin.soft_max = 1
    /\ fout = <<"invalid_argument">>

\* C17 as stated: no state with a shard count that is not a power of two
\* (0 included) is ever constructed.
C17_PowerOfTwoShards ==
    pc = "constructed" =>
        /\ IsPowerOfTwo(fin.number_workers)
        /\ IsPowerOfTwo(Len(psi.maps))

-----------------------------------------------------------------------------
(* Properties of a program run, checked under SpecMain *)

ConfigurationError(cmd) == cmd.soft_max < 2 \/ cmd.iterations = 0 \/ cmd.same_file

\* C15 as stated: in a run whose configuration is in error (soft cap below 2,
\* n = 0, output file equal to the input file) no state is ever constructed,
\* the input is never read and no energy is computed or written.
C15_ConfigErrorsBeforeState ==
    ConfigurationError(fin) =>
        /\ \A n \in 1..Len(fout) : fout[n] \notin {"state_constructed", "input_read"}
        /\ energy_val = <<>>
        /\ pc \in {"parse_options", "construct", "error"}

-----------------------------------------------------------------------------
(* Properties of stochastic resampling, checked under SpecResample *)

\* The number of draws that returned key k.
TimesDrawn(k) == Cardinality({ n \in 1..Len(fout) : fout[n] = k })

\* C21 as stated: a key drawn m >= 1 times among the S samples ends up in the
\* new state with m times its original amplitude.
C21_DuplicatesMergeAdditively ==
    pc = "resampled" =>
        \A k \in Range(fout) :
            /\ k \in StateKeys(psi)
            /\ Amp(psi, k) = CScale(TimesDrawn(k), Amp(built, k))

\* C21 amended: S items are drawn; the new state holds exactly the keys drawn,
\* each once and with its original amplitude however often it was drawn (the
\* insert of a key already stored changes nothing), so it holds between 1 and S
\* entries; every key drawn had a non-zero amplitude.
C21_DuplicatesKeepOriginal ==
    pc = "resampled" =>
        /\ Len(fout) = psi.soft_max
        /\ StateKeys(psi) = Range(fout)
        /\ StateKeys(psi) \subseteq StateKeys(built)
        /\ StateSize(psi) \in 1..psi.soft_max
        /\ \A k \in StateKeys(psi) :
               /\ Amp(psi, k) = Amp(built, k)
               /\ CNorm(Amp(built, k)) > 0
               /\ k \in DOMAIN psi.maps[SpinToIndex(k, NumberWorkers(psi)) + 1]

\* C21 witness: a key with a non-zero amplitude was drawn more than once, and
\* the new state holds fewer than S entries.
C21_Witness ==
    /\ pc = "resampled"
    /\ \E k \in Range(fout) : TimesDrawn(k) >= 2 /\ Amp(built, k) /= CZero
    /\ StateSize(psi) < psi.soft_max
    /\ StateSize(built) > psi.soft_max

-----------------------------------------------------------------------------
(* Properties of the alias method, checked under SpecAlias *)

\* n times unit times the probability that a draw from the table returns i:
\* the index i itself with probability prob[i], or as the alias of an index j
\* with probability 1 - prob[j].
DrawMass(table, i) ==
    table.prob[i]
    + SumSeq([j \in 1..Len(table.prob) |->
                 IF table.alias[j] = i THEN table.unit - table.prob[j] ELSE 0])

\* C22: for n >= 1 non-negative weights with a positive sum the table has
\* 0 <= prob[i] <= 1, a valid alias wherever prob[i] < 1, and gives every index
\* i the probability w[i] / sum(w); a draw returns an index in [0, n), never the
\* sentinel and never an index of weight 0; equal weights give prob = 1
\* everywhere; weights [1,0,0,0] return index 0 only; a zero sum is an error.
C22_AliasMethodCorrect ==
    /\ (pc = "error" <=> (pc /= "alias_init" /\ WeightSum(fin) = 0))
    /\ (pc \in {"draw", "drawn"} =>
           LET table == fout[1]
               n == Len(fin)
           IN /\ Len(table.prob) = n
              /\ Len(table.alias) = n
              /\ table.unit = WeightSum(fin)
              /\ \A i \in 1..n :
                     /\ 0 <= table.prob[i]
                     /\ table.prob[i] <= table.unit
                     /\ (table.prob[i] < table.unit => table.alias[i] \in 1..n)
                     /\ DrawMass(table, i) = n * fin[i]
              /\ DrawOutcomes(table) = { i \in 1..n : fin[i] > 0 }
              /\ ((\A i \in 1..n : fin[i] = fin[1]) =>
                      \A i \in 1..n : table.prob[i] = table.unit)
              /\ (fin = <<1, 0, 0, 0>> => DrawOutcomes(table) = {1}))
    /\ (pc = "drawn" => (fout[2] \in 1..Len(fin) /\ fin[fout[2]] > 0))

\* C22 witness: a draw has returned the alias of an index whose own weight is
\* not 0, from a table of four unequal weights one of which is 0, in which a
\* large index was moved to the small ones.
C22_Witness ==
    /\ pc = "drawn"
    /\ Len(fin) = 4
    /\ \E i \in 1..4 : fin[i] = 0
    /\ \E i \in 1..4 :
           /\ 0 < fout[1].prob[i]
           /\ fout[1].prob[i] < fout[1].unit
           /\ fout[1].alias[i] = fout[2]
           /\ fin[i] * 4 >= WeightSum(fin)
    /\ \E i, j \in 1..4 : fin[i] /= fin[j] /\ fin[i] > 0 /\ fin[j] > 0

-----------------------------------------------------------------------------
(* Properties of SpinVector, checked under SpecSpin *)

\* Byte j (from 1) of the payload as the layout prescribes it: bit i of the key
\* at bit position 7 - (i mod 8) of byte i div 8, every other bit 0.
LayoutByte(bits, j) ==
    SumSeq([p \in 1..8 |->
               IF 8 * (j - 1) + p <= Len(bits) THEN bits[8 * (j - 1) + p] * Pow2(8 - p) ELSE 0])

ConstructedAs(k, bits) ==
    /\ k.size = Len(bits)
    /\ \A i \in 0..(Len(bits) - 1) : SpinGet(k, i) = bits[i + 1]
    /\ \A j \in 1..SpinBytes : k.spin[j] = LayoutByte(bits, j)
    /\ \A i \in Len(bits)..(MaxSize - 1) : SpinGet(k, i) = 0

\* C23: a key constructed from L <= 112 bits has size L, reads back every bit,
\* stores bit i at bit position 7 - (i mod 8) of byte i div 8 ({1,0,0,1,1,0,1}
\* gives byte 0 = 0x9A), and has every bit at a position >= L zero.
C23_ConstructionRoundTrip ==
    (pc = "spin" /\ fout.ops = 0) =>
        /\ ConstructedAs(fout.a, fin.a)
        /\ ConstructedAs(fout.b, fin.b)
        /\ (fin.a = <<1, 0, 0, 1, 1, 0, 1>> => fout.a.spin[1] = 154)
        /\ (Len(fin.a) = 14 => (fout.a.spin[1] = 50 /\ fout.a.spin[2] = 180))

\* C23 witness: keys of 112 bits and of 0 bits have been constructed.
C23_Witness ==
    /\ pc = "spin"
    /\ fout.ops = 0
    /\ fin.a = Alternating(MaxSize)
    /\ fout.a.spin[SpinBytes] = 170
    /\ fin.b = <<>>

PaddingZero(k) == \A i \in k.size..(MaxSize - 1) : SpinGet(k, i) = 0

SameBits(a, b) ==
    /\ a.size = b.size
    /\ \A i \in 0..(a.size - 1) : SpinGet(a, i) = SpinGet(b, i)

\* C24: after construction and any indexed writes, flips and flipped calls at
\* indices below the length, the padding bits are zero; two keys compare equal
\* exactly when they have the same length and the same bits below it; keys that
\* compare equal hash equal, and a copy compares equal to its source.
C24_EqualityAndHash ==
    pc = "spin" =>
        /\ PaddingZero(fout.a)
        /\ PaddingZero(fout.b)
        /\ (SpinEq(fout.a, fout.b) <=> SameBits(fout.a, fout.b))
        /\ (SpinEq(fout.a, fout.b) => SpinHash(fout.a) = SpinHash(fout.b))
        /\ (fout.last = "copy" =>
               (SpinEq(fout.b, fout.a) /\ SpinHash(fout.b) = SpinHash(fout.a)))

\* C24 witness: without any copy, MaxOps operations ending in a flip have made
\* the first key, constructed from other bits, equal to the second.
C24_Witness ==
    /\ pc = "spin"
    /\ fout.ops = MaxOps
    /\ fout.last = "flip"
    /\ fin.a /= fin.b
    /\ ConstructedAs(fout.b, fin.b)
    /\ ~ConstructedAs(fout.a, fin.a)
    /\ SpinEq(fout.a, fout.b)

-----------------------------------------------------------------------------
(* Properties of the text round trip, checked under SpecText *)

SameEntries(a, b) ==
    /\ StateKeys(a) = StateKeys(b)
    /\ \A k \in StateKeys(a) : Amp(a, k) = Amp(b, k)
    /\ a.den = b.den

\* C25 as stated: a state whose keys have any length from 0 to 112, written as
\* text and read back, is accepted and has the same keys with the same
\* amplitudes.
C25_TextRoundTrip ==
    pc = "reread_done" =>
        /\ fout[2] = "ok"
        /\ SameEntries(psi, built)

\* C25, what holds: the round trip preserves every state whose keys all have
\* at least one bit, the keys of 112 bits included.
C25_TextRoundTripNonEmptyKeys ==
    (pc = "reread_done" /\ \A k \in StateKeys(built) : k.size >= 1) =>
        /\ fout[2] = "ok"
        /\ SameEntries(psi, built)

\* C25, reached: a state holding a key of 112 bits and a key of one bit has
\* made the round trip.
C25_Reached ==
    /\ pc = "reread_done"
    /\ fout[2] = "ok"
    /\ \E k \in StateKeys(psi) : k.size = MaxSize
    /\ \E k \in StateKeys(psi) : k.size = 1
    /\ \E k \in StateKeys(psi) : Amp(psi, k)[1] % 2 /= 0

-----------------------------------------------------------------------------
(* Properties of one build with its threads, checked under SpecStep and      *)
(* SpecStepFair                                                              *)

\* Builder.start() has been called and Builder.stop() has not returned.
BuildRunning == pc \in { "start", "add", "push", "retry", "stop" }

\* The consumer thread of updater j exists and has not left its lambda.
Live(j) == cpc[j] \in { "outer", "inner", "drain" }

\* A step of the consumer of updater j that pops a record and processes it.
ConsumerProcesses(j) ==
    /\ cpc[j] \in { "inner", "drain" }
    /\ queue[j] /= <<>>
    /\ queue' = [queue EXCEPT ![j] = Tail(@)]
    /\ pc' = pc
    /\ done' = done

\* A step of the thread that runs the build: it moves on in its code, sets a
\* done flag or lengthens a ring.
ProducerActs ==
    \/ pc' /= pc
    \/ done' /= done
    \/ \E j \in 1..Len(queue) : Len(queue'[j]) > Len(queue[j])

\* C27: between Builder.start() and the return of Builder.stop(), a shard of
\* the state being built changes only in a step of the consumer of its own
\* updater, which changes no other shard; no step of the producer changes a
\* shard; a consumer thread is created only for an updater that has none; and
\* while updates are pushed all N consumers are alive.
C27_ShardExclusivity ==
    [][BuildRunning =>
          /\ \A j \in 1..Len(cpc) :
                 psi'.maps[j] /= psi.maps[j] =>
                     /\ ConsumerProcesses(j)
                     /\ \A m \in 1..Len(cpc) : m /= j => psi'.maps[m] = psi.maps[m]
          /\ psi' /= psi => \E j \in 1..Len(cpc) : psi'.maps[j] /= psi.maps[j]
          /\ ProducerActs => psi' = psi
          /\ \A j \in 1..Len(cpc) :
                 (~Live(j) /\ cpc'[j] = "outer") => cpc[j] = "none"
          /\ pc \in { "add", "push", "retry" } => \A j \in 1..Len(cpc) : Live(j)
      ]_vars

\* C27, reached: a build on two shards in which both consumers are in their
\* pop loops with a record to process and one shard already holds an entry.
C27_Witness ==
    /\ BuildRunning
    /\ Len(cpc) = 2
    /\ \A j \in 1..2 : cpc[j] = "inner" /\ queue[j] /= <<>>
    /\ \E j \in 1..2 : psi.maps[j] /= EmptyMap

\* C28: once stop() is called after the last push, it eventually returns; a
\* consumer that has left its lambda has left its ring empty, so the assertion
\* after join() holds; and when stop() has returned every ring is empty, every
\* consumer is joined and the state built holds every update that was pushed.
C28_DrainAndTermination ==
    /\ (pc = "stop") ~> (pc = "stopped")
    /\ [](\A i \in 1..Len(cpc) : cpc[i] \in { "exited", "joined" } => queue[i] = <<>>)
    /\ [](pc = "stopped" =>
             /\ \A i \in 1..Len(cpc) : cpc[i] = "joined" /\ done[i] /\ queue[i] = <<>>
             /\ psi = BuilderRun(built, StepUpdates))

\* C28, reached: stop() has set the done flag of an updater whose consumer is
\* inside its pop loop with records still in the ring.
C28_Witness ==
    /\ pc = "stop"
    /\ \E i \in 1..Len(cpc) : done[i] /\ cpc[i] = "inner" /\ Len(queue[i]) >= 2

\* The record the producer is pushing while it is inside Updater::operator().
PendingRecord == <<NextUpdate[2], NextUpdate[1]>>

\* C29: a first push on a full ring leaves every ring as it was and is tried
\* again (a later failed push changes nothing at all); a ring only ever loses its oldest record to its consumer or gains the
\* pending record at its end, and never holds more than its capacity; every
\* call of operator+= eventually returns; while the producer spins every live
\* consumer can take a step; and a build that has not returned can always
\* take a step.
C29_ProducerProgress ==
    /\ (pc \in { "push", "retry" }) ~> (pc = "add")
    /\ [](\A i \in 1..Len(queue) : Len(queue[i]) <= QueueCapacity)
    /\ [][(pc = "push" /\ pc' = "retry") =>
              /\ queue' = queue
              /\ fout' = fout
              /\ Len(queue[Route(NextUpdate, Len(queue))]) = QueueCapacity
         ]_vars
    /\ [][\A i \in 1..Len(queue) :
              queue'[i] /= queue[i] =>
                  \/ ConsumerProcesses(i)
                  \/ /\ pc \in { "push", "retry" }
                     /\ pc' = "add"
                     /\ queue'[i] = Append(queue[i], PendingRecord)
         ]_vars
    /\ [](pc = "retry" => \A i \in 1..Len(cpc) : Live(i) /\ ENABLED <<ConsumerStep(i)>>_vars)
    /\ [](BuildRunning => ENABLED <<NextStep>>_vars)

\* C29, reached: the producer has failed a push on a full ring and is
\* spinning on it.
C29_Witness ==
    /\ pc = "retry"
    /\ Len(queue[Route(NextUpdate, Len(queue))]) = QueueCapacity
    /\ \E i \in 1..Len(cpc) : cpc[i] = "inner"

\* The code that follows the build: shrink and normalize in diffusion_loop
\* (either may throw), the second for_each and the return in energy.
AfterBuild == pc \in { "shrink", "normalize", "loop_test", "error", "energy_done" }

\* C30: in trotter_step and in energy a record enters a ring only inside
\* operator+=, when Builder.start() has started every updater and no done flag
\* has been set; nothing is pushed once stop() has begun, which is after the
\* last update; and shrink, normalize and the sum of energy run only when
\* stop() has returned: every consumer joined, every ring empty.
C30_BuildWindowOrdering ==
    /\ [][(\E i \in 1..Len(queue) : Len(queue'[i]) > Len(queue[i])) =>
              /\ pc \in { "push", "retry" }
              /\ \A j \in 1..Len(cpc) : Live(j) /\ ~done[j]
         ]_vars
    /\ [](pc \in { "stop", "stopped" } \/ AfterBuild => fout = StepUpdates)
    /\ []((\E j \in 1..Len(done) : done[j] /\ cpc[j] /= "none") =>
              pc \in { "stop", "stopped" } \/ AfterBuild)
    /\ [](AfterBuild =>
              \A i \in 1..Len(cpc) : cpc[i] = "joined" /\ done[i] /\ queue[i] = <<>>)
    /\ [][(psi' /= psi /\ ~BuildRunning) => (AfterBuild /\ \A i \in 1..Len(cpc) : ~Live(i))]_vars

\* C30, reached: after a build on two shards that pushed updates, shrink has
\* truncated the state and normalize is next.
C30_Witness ==
    /\ pc = "normalize"
    /\ Len(cpc) = 2
    /\ fout /= <<>>
    /\ StateSize(psi) < StateSize(built)

\* C30, reached in energy: the sum over psi has read a state built on two
\* shards.
C30_ReachedEnergy ==
    /\ pc = "energy_done"
    /\ Len(cpc) = 2
    /\ fout /= <<>>
    /\ energy_val[1].num /= CZero

-----------------------------------------------------------------------------
(* Properties of the builder's lifecycle, checked under SpecLifecycle        *)

\* C31 as stated: a consumer thread comes into being only in a step of an
\* explicit start(); no push creates one.
C31_NoAutoStart ==
    [][\A i \in 1..Len(cpc) : (~Live(i) /\ cpc'[i] = "outer") => pc = "start"]_vars

\* C31, what the code does: a push on an updater whose _done is true, never
\* started or already stopped, has created its consumer thread.
C31_AutoStarted ==
    /\ pc = "add"
    /\ \E i \in 1..Len(cpc) : Live(i) /\ queue[i] /= <<>>
    /\ \E i \in 1..Len(cpc) : cpc[i] = "none"

-----------------------------------------------------------------------------
(* Properties of for_each, checked under SpecForEach                         *)

\* Every stored (key, amplitude) pair of the state s.
AllEntries(s) == { <<k, Amp(s, k)>> : k \in StateKeys(s) }

\* The entries still ahead of the iterators in xs.
AheadOf(xs) == UNION { Range(xs[n]) : n \in 1..Len(xs) }

\* C32: for_each returns; until then no entry has been given to the callback
\* twice and every entry is either given or still ahead in exactly one of the
\* iterator pairs; when it returns the callback has been called once for every
\* entry of every shard, in the order ForEach lists them.
C32_ForEachExactlyOnce ==
    /\ <>(pc = "visited")
    /\ [](pc = "visit" =>
             /\ \A m, n \in 1..Len(fout.acc) : fout.acc[m] = fout.acc[n] => m = n
             /\ Range(fout.acc) \cup AheadOf(fout.xs) = AllEntries(psi)
             /\ Range(fout.acc) \cap AheadOf(fout.xs) = {}
             /\ \A n \in 1..Len(fout.xs) : fout.xs[n] /= <<>>)
    /\ [](pc = "visited" =>
             /\ Len(fout.acc) = StateSize(psi)
             /\ Range(fout.acc) = AllEntries(psi)
             /\ fout.acc = ForEach(psi))

\* C32, reached: for_each has returned on a state of four shards, one of them
\* empty and the others of unequal sizes, after a swap-and-pop in mid-round.
C32_Witness ==
    /\ pc = "visited"
    /\ NumberWorkers(psi) = 4
    /\ \E i \in 1..4 : psi.maps[i] = EmptyMap
    /\ \E i, j \in 1..4 : /\ i < j
                          /\ Cardinality(DOMAIN psi.maps[i]) = 1
                          /\ Cardinality(DOMAIN psi.maps[j]) = 2
    /\ Len(fout.acc) = MaxVisits

-----------------------------------------------------------------------------
(* Properties of the driver's state parameters, checked under Spec           *)

\* trotter_step has run at least once: prev is the input of its last call.
Stepped == \E n \in 1..Len(oplog) : oplog[n] = "trotter_step"

\* C33 as stated: the state trotter_step returns has the soft cap, the hard
\* cap, the shard count and the sampling mode of its input.
C33_SameParameters ==
    Stepped =>
        /\ psi.soft_max = prev.soft_max
        /\ psi.hard_max = prev.hard_max
        /\ NumberWorkers(psi) = NumberWorkers(prev)
        /\ psi.random = prev.random

\* C33, what holds: no step of the driver changes the soft cap, the shard
\* count or the sampling mode, so they stay those of the initial state; the
\* hard cap of the state trotter_step returns is the largest bucket count of
\* its input's tables, a power of two that is at least the input's hard cap.
C33_ParametersButHardCap ==
    /\ [][/\ psi'.soft_max = psi.soft_max
          /\ NumberWorkers(psi') = NumberWorkers(psi)
          /\ psi'.random = psi.random
          /\ psi'.hard_max >= psi.hard_max]_vars
    /\ [](Stepped =>
             /\ psi.soft_max = prev.soft_max
             /\ NumberWorkers(psi) = NumberWorkers(prev)
             /\ psi.random = prev.random
             /\ psi.hard_max >= prev.hard_max
             /\ \E e \in 0..8 : psi.hard_max = Pow2(e)
             /\ \A i \in 1..NumberWorkers(prev) :
                    psi.hard_max >= BucketCount(prev.hard_max, Cardinality(DOMAIN prev.maps[i]))
             /\ \E i \in 1..NumberWorkers(prev) :
                    psi.hard_max = BucketCount(prev.hard_max, Cardinality(DOMAIN prev.maps[i])))

\* C33, reached: a state whose hard cap is not a power of two has gone through
\* two iterations; the current hard cap is larger than the one it started with.
C33_Witness ==
    /\ iter >= 2
    /\ Stepped
    /\ StateSize(psi) >= 1
    /\ \A e \in 0..8 : 2 * psi.soft_max /= Pow2(e)
    /\ psi.hard_max > 2 * psi.soft_max

-----------------------------------------------------------------------------
(* Properties of stochastic truncation, checked under SpecResample           *)

\* The keys of s whose amplitude is not zero.
NonZeroKeys(s) == { k \in StateKeys(s) : Amp(s, k) /= CZero }

\* C34: stochastic shrink on a state with a non-zero amplitude does not fail
\* and makes S draws whatever the size of the state; the keys of the new state
\* are exactly the keys drawn, at least one and at most S of them, all of them
\* keys of the previous state with a non-zero amplitude; nothing else of the
\* previous state is kept.
C34_StochasticReplacesState ==
    NonZeroKeys(built) /= {} =>
        /\ pc /= "error"
        /\ pc = "resampled" =>
               /\ Len(fout) = built.soft_max
               /\ StateKeys(psi) = Range(fout)
               /\ StateKeys(psi) /= {}
               /\ Cardinality(StateKeys(psi)) <= built.soft_max
               /\ StateKeys(psi) \subseteq NonZeroKeys(built)
               /\ StateSize(psi) = Cardinality(StateKeys(psi))

\* C34, reached: a state no larger than S, holding a key of amplitude zero,
\* has been resampled and has lost a key whose amplitude was not zero.
C34_Witness ==
    /\ pc = "resampled"
    /\ StateSize(built) <= built.soft_max
    /\ \E k \in StateKeys(built) : Amp(built, k) = CZero
    /\ \E k \in NonZeroKeys(built) : k \notin StateKeys(psi)

-----------------------------------------------------------------------------
(* Properties of read_hamiltonian, checked under SpecHam                     *)

\* C35 as stated: every edge of every term read_hamiltonian returns has both
\* indices in 0..111.
C35_EdgeIndicesInRange ==
    pc = "hamiltonian_read" =>
        \A t \in 1..Len(ham) : \A e \in 1..Len(ham[t].edges) : \A m \in 1..2 :
            ham[t].edges[e][m] >= 0 /\ ham[t].edges[e][m] < MaxSize

\* C35, what the code does: read_hamiltonian has returned a Hamiltonian with
\* an edge at index 112 and an edge at index -1.
C35_OutOfRangeAccepted ==
    /\ pc = "hamiltonian_read"
    /\ \E t \in 1..Len(ham) : \E e \in 1..Len(ham[t].edges) : ham[t].edges[e][2] = MaxSize
    /\ \E t \in 1..Len(ham) : \E e \in 1..Len(ham[t].edges) : ham[t].edges[e][1] = -1

\* C35, what is rejected: a line is refused only for its syntax or for an
\* integer that does not fit 32 bits; every term stored is the line's coupling
\* with all the edges written on it.
C35_OnlySyntaxRejected ==
    /\ \A n \in 1..Len(fout) :
           fout[n] = "thrown" <=>
               /\ fin[n] /= <<>>
               /\ Head(fin[n]) /= "#"
               /\ \/ ~ParseDouble(fin[n]).ok
                  \/ ~ParseAdjacencyList(ParseDouble(fin[n]).rest).ok
    /\ pc = "hamiltonian_read" =>
           Len(ham) = Cardinality({ n \in 1..Len(fin) : Head(fin[n]) \notin { "#", "\n" } })

-----------------------------------------------------------------------------
(* Conservation under the Heisenberg operator                                *)

\* The number of up spins of a configuration.
UpSpins(v) == Cardinality({ i \in 0..(v.size - 1) : SpinGet(v, i) = 1 })

SameSector(v, w) == v.size = w.size /\ UpSpins(v) = UpSpins(w)

\* Every key the operator emits for spin is in the sector of spin.
Conserves(specs, spin, coeff) ==
    LET us == Heisenberg(specs, spin, coeff)
    IN \A n \in 1..Len(us) : SameSector(us[n][2], spin)

\* C36: every key Heisenberg::operator() emits for a key of the state that
\* trotter_step is about to be given has the length and the number of up
\* spins of that key, and every step of
\* the program leaves each key of the state in the sector of a key the state
\* had before the step; by induction every key of the state after any number
\* of iterations is in the sector of a key of the initial state.
C36_SectorConservation ==
    /\ [](pc = "trotter" => \A k \in StateKeys(psi) : Conserves(ham, k, Amp(psi, k)))
    /\ [][\A k \in StateKeys(psi') : \E k0 \in StateKeys(psi) : SameSector(k, k0)]_vars

\* C36, the case: in the second iteration trotter_step has returned a state
\* with a key the state it was given did not hold.
C36_Witness ==
    /\ pc = "shrink"
    /\ iter = 1
    /\ StateKeys(psi) \ StateKeys(prev) /= {}

\* C36, the operator alone under SpecHeisenberg: on keys of two and three
\* spins, every Hamiltonian whose edges are inside the key.
C36_OperatorConserves ==
    \A n \in 1..Len(fout) : \A m \in 1..Len(fout[n]) : SameSector(fout[n][m][2], fin.spin)

-----------------------------------------------------------------------------
(* Accumulation never removes keys                                           *)

\* Shard by shard, every key of s is a key of t.
ShardsGrow(s, t) ==
    \A j \in 1..Len(s.maps) : DOMAIN s.maps[j] \subseteq DOMAIN t.maps[j]

\* C37, the case: a build has ended with a key that received two updates
\* whose sum is zero; the key is stored with amplitude zero.
C37_Witness ==
    /\ pc = "stopped"
    /\ \E k \in StateKeys(psi) : nadds[k] >= 2 /\ total[k] = CZero /\ Amp(psi, k) = CZero

\* C37: until trotter_step or energy has returned no step removes a key from
\* a shard of h_psi; when the builder has stopped, every key that was pushed
\* is stored, with the sum of its updates, zero included; and the state
\* trotter_step returns holds every key of its input, for lambda = 0 too.
C37_KeysOnlyGrow ==
    /\ [][pc \notin { "shrink", "normalize" } => ShardsGrow(psi, psi')]_vars
    /\ [](pc = "stopped" =>
              \A k \in Keys : nadds[k] > 0 => k \in StateKeys(psi) /\ Amp(psi, k) = total[k])
    /\ [](pc = "stopped" /\ fin.mode = "trotter_step" => ShardsGrow(prev, psi))

\* C37, lambda = 0: trotter_step with the empty Hamiltonian has returned the
\* keys of its input, all with amplitude zero.
C37_LambdaZero ==
    /\ pc = "shrink"
    /\ lambda = 0
    /\ ham = HamZero
    /\ StateKeys(prev) /= {}
    /\ StateKeys(built) = StateKeys(prev)
    /\ \A k \in StateKeys(built) : Amp(built, k) = CZero

-----------------------------------------------------------------------------
(* The input state of trotter_step and energy                                *)

\* The function that runs has returned.
Returned == pc \in { "shrink", "energy_done" }

\* C38: no step of trotter_step or energy, of the builder or of a consumer
\* thread changes the input state: its tables (keys, amplitudes and the shard
\* of each key) and its parameters are the same after every step, so the
\* state read by for_each is the state the caller holds after the return.
C38_InputUnchanged ==
    [][~Returned =>
          /\ prev'.maps = prev.maps
          /\ prev'.soft_max = prev.soft_max
          /\ prev'.hard_max = prev.hard_max
          /\ prev'.random = prev.random
          /\ prev'.den = prev.den]_vars

\* C38, the case: trotter_step has returned a state different from its
\* input, after consumers processed updates for keys of the input.
C38_Witness ==
    /\ pc = "shrink"
    /\ StateKeys(prev) /= {}
    /\ \E k \in StateKeys(prev) : nadds[k] > 0 /\ Amp(built, k) /= Amp(prev, k)

\* C38, the path on which H emits nothing: energy has returned without a
\* single update pushed, on a state that has entries.
C38_NothingEmitted ==
    /\ pc = "energy_done"
    /\ StateKeys(prev) /= {}
    /\ fin.updates = <<>>

-----------------------------------------------------------------------------
(* The state a failed stochastic shrink leaves                               *)

\* C39: when random_resample has thrown because the weights sum to zero,
\* every shard of the state is empty: the entries the state had before the
\* call, all of amplitude zero, are gone and not put back, while the number
\* of shards and the parameters are as before.
C39_EmptyOnFailure ==
    pc = "error" =>
        /\ \A k \in StateKeys(built) : CNorm(Amp(built, k)) = 0
        /\ \A j \in 1..Len(psi.maps) : psi.maps[j] = EmptyMap
        /\ StateSize(psi) = 0
        /\ Len(psi.maps) = Len(built.maps)
        /\ psi.soft_max = built.soft_max
        /\ psi.hard_max = built.hard_max
        /\ psi.random = built.random

\* C39, the case: the call failed on a state with two entries or more, which
\* the state no longer holds.
C39_Witness ==
    /\ pc = "error"
    /\ StateSize(built) >= 2
    /\ StateKeys(psi) /= StateKeys(built)

=============================================================================
